---- MODULE Spec2Model ----
(***************************************************************************)
(* Model of the document pipeline: the table-backed record store           *)
(* (app/services/database.py), the JSON-blob record store                  *)
(* (app/services/file_manager.py), the task orchestrator                   *)
(* (app/core/celery_app.py) and the notification hub                       *)
(* (app/api/websocket.py).                                                 *)
(***************************************************************************)
EXTENDS Integers, Sequences, FiniteSets, TLC

(***************************************************************************)
(* Values                                                                  *)
(***************************************************************************)
\* Python's None, for a column, an argument or a dict entry.
None == "None"

\* File ids a caller may pass; "f1" and "f2" are two arbitrary tokens.
Ids == {"f1", "f2"}

\* The stage rows create_file_record inserts, in insertion order.
StageNames == <<"upload", "convert", "vectorize">>

StageSet == {StageNames[i] : i \in DOMAIN StageNames}

Statuses == {"pending", "processing", "completed", "error"}

\* Results a caller passes: a conversion result (it has output_file), an
\* indexing result, an empty dict, or nothing.
ConvResult == "conv_result"

VecResult == "vec_result"

EmptyResult == "empty_dict"

\* Python truthiness of a result / error argument (`if result`, `if error`).
Truthy(x) == x \notin {None, EmptyResult, ""}

\* result.get("output_file")
OutputFile(result) == IF result = ConvResult THEN "report.md" ELSE None

\* What a read reports for an id with no record (get_file_record returns None).
NullRecord == [found |-> FALSE]

\* Bounds of the model.
MaxErrors == 1

MaxStageRows == 6

\* Commits recorded while one read is between its two SELECTs.
MaxSeen == 2

\* Entries of the error log of the one record of SpecStoreOne.
MaxLog == 2

\* The latest time of SpecList's clock.
MaxClock == 1

(***************************************************************************)
(* The arguments of update_stage_status the model draws from.             *)
(***************************************************************************)
UpdateArg(stage, status, result, error) ==
    [stage |-> stage, status |-> status, result |-> result, error |-> error]

UpdateArgs ==
    {UpdateArg(s, "processing", None, None) : s \in {"convert", "vectorize"}}
    \cup {UpdateArg(s, "error", None, "boom") : s \in {"convert", "vectorize"}}
    \cup {UpdateArg("convert", "completed", ConvResult, None),
          UpdateArg("vectorize", "completed", VecResult, None),
          UpdateArg("convert", "pending", None, None),
          UpdateArg("upload", "error", None, None)}

\* Updates that name a stage no record has.
InvalidStageArgs ==
    {UpdateArg("export", "processing", None, None),
     UpdateArg("export", "error", None, "boom")}

VARIABLES
    file_records,   \* table file_records: file_id -> row
    file_stages,    \* table file_stages: rows in rowid order
    db_ret,         \* outcome of the last DatabaseManager call
    reader,         \* a get_file_record call in progress on another connection
    db_call,        \* the DatabaseManager call that returned db_ret, where recorded
    updater,        \* an update_stage_status call between its commit and its return
    clock,          \* the time datetime.now() gives
    listing         \* the list the last call returned, when it was list_files

VARIABLES
    metadata,       \* FileManager's metadata files: file_id -> saved metadata
    worker,         \* an update_stage_status call in progress in each worker
    last_write,     \* per record and stage, the status of the latest finished update
    fm_ret          \* outcome of the last FileManager call

VARIABLES
    chain,          \* per record, the position and locals of its chain task
    stage_writes    \* per record, the update_stage_status calls of its tasks

VARIABLES
    batch,          \* the batch conversion task: its position, locals and result
    vtask           \* per record, its vectorize_markdown task

VARIABLES
    active_connections,  \* ConnectionManager.active_connections
    task_subscriptions,  \* ConnectionManager.task_subscriptions, in insertion order
    file_subscriptions,  \* ConnectionManager.file_subscriptions, in insertion order
    endpoint,            \* per WebSocket, the state of its websocket_endpoint call
    hub_ret              \* outcome of the last hub call

VARIABLES
    fanout,         \* the publish call in progress: its loop and what it has sent
    unsubscribed    \* subscriptions ended by an unsubscribe command

listVars == <<clock, listing>>

dbVars == <<file_records, file_stages, db_ret, reader, db_call, updater, listVars>>

fmVars == <<metadata, worker, last_write, fm_ret>>

jobVars == <<batch, vtask>>

taskVars == <<chain, stage_writes, jobVars>>

pubVars == <<fanout, unsubscribed>>

hubVars ==
    <<active_connections, task_subscriptions, file_subscriptions, endpoint, hub_ret,
      pubVars>>

vars == <<dbVars, fmVars, taskVars, hubVars>>

(***************************************************************************)
(* DatabaseManager (app/services/database.py)                              *)
(***************************************************************************)
\* sqlite3.connect() leaves PRAGMA foreign_keys at its default, off: the
\* ON DELETE CASCADE of file_stages is declared but not enforced.
ForeignKeysEnforced == FALSE

\* json.dumps(result) if result else None
ResultJson(result) == IF Truthy(result) THEN result ELSE None

\* datetime.now().isoformat(), as far as it matters: a time was written.
Now == "now"

StageRow(id, name, status, timestamp, result, error) ==
    [file_id |-> id, stage_name |-> name, status |-> status,
     timestamp |-> timestamp, result |-> result, error |-> error]

\* Mutant of InitialStageRows: the upload stage is inserted pending too.
InitialStageRowsAllPending(id) ==
    <<StageRow(id, "upload", "pending", None, None, None),
      StageRow(id, "convert", "pending", None, None, None),
      StageRow(id, "vectorize", "pending", None, None, None)>>

\* The three rows create_file_record inserts.
InitialStageRows(id) ==
    <<StageRow(id, "upload", "completed", Now, None, None),
      StageRow(id, "convert", "pending", None, None, None),
      StageRow(id, "vectorize", "pending", None, None, None)>>

InitialFileRecord ==
    [status |-> "uploaded", created_at |-> clock, markdown_path |-> None,
     processing_errors |-> <<>>]

\* Mutant of SelectedStatuses: the SELECT without its stage_name filter.
SelectedStatusesAllStages(rows, id) ==
    {rows[i].status : i \in {j \in DOMAIN rows : rows[j].file_id = id}}

\* Statuses of the rows of `id` that _update_file_status selects.
SelectedStatuses(rows, id) ==
    {rows[i].status : i \in {j \in DOMAIN rows :
        rows[j].file_id = id /\ rows[j].stage_name \in {"convert", "vectorize"}}}

\* The if/elif chain of _update_file_status over the selected statuses.
OverallStatus(statuses) ==
    IF \A s \in statuses : s = "completed" THEN "completed"
    ELSE IF \E s \in statuses : s = "error" THEN "error"
    ELSE IF \E s \in statuses : s \in {"processing", "completed"} THEN "processing"
    ELSE "uploaded"

\* _update_file_status: UPDATE file_records SET status WHERE file_id = id.
update_file_status(recs, rows, id) ==
    IF id \in DOMAIN recs
    THEN [recs EXCEPT ![id].status = OverallStatus(SelectedStatuses(rows, id))]
    ELSE recs

\* UPDATE file_stages SET ... WHERE file_id = id AND stage_name = stage.
UpdateStageRows(rows, id, a) ==
    [i \in DOMAIN rows |->
        IF rows[i].file_id = id /\ rows[i].stage_name = a.stage
        THEN [rows[i] EXCEPT !.status = a.status,
                             !.timestamp = Now,
                             !.result = ResultJson(a.result),
                             !.error = a.error]
        ELSE rows[i]]

\* The path update of a completed convert stage.
UpdatePaths(recs, id, a) ==
    IF /\ id \in DOMAIN recs
       /\ a.status = "completed" /\ Truthy(a.result)
       /\ a.stage = "convert" /\ OutputFile(a.result) # None
    THEN [recs EXCEPT ![id].markdown_path = OutputFile(a.result)]
    ELSE recs

\* Mutant of AppendError: the new entry is put in front of the log.
AppendErrorInFront(recs, id, a) ==
    [recs EXCEPT ![id].processing_errors =
        <<[stage |-> a.stage, error |-> a.error, timestamp |-> Now]>> \o @]

AppendError(recs, id, a) ==
    [recs EXCEPT ![id].processing_errors =
        Append(@, [stage |-> a.stage, error |-> a.error, timestamp |-> Now])]

\* The rows of `id` keyed by stage name, as the read loop builds the dict:
\* a later row of the same stage name overwrites an earlier one.
StagesOf(rows, id) ==
    LET mine == {i \in DOMAIN rows : rows[i].file_id = id}
        names == {rows[i].stage_name : i \in mine}
        last(n) == CHOOSE i \in mine : /\ rows[i].stage_name = n
                                       /\ \A j \in mine : rows[j].stage_name = n => j <= i
    IN [n \in names |-> [status |-> rows[last(n)].status,
                         timestamp |-> rows[last(n)].timestamp,
                         result |-> rows[last(n)].result,
                         error |-> rows[last(n)].error]]

\* The dict get_file_record builds from a file row and the stage rows.
BuildRecord(row, stages) ==
    [found |-> TRUE, status |-> row.status, stages |-> stages,
     markdown_path |-> row.markdown_path,
     processing_errors |-> row.processing_errors]

get_file_record(recs, rows, id) ==
    IF id \in DOMAIN recs THEN BuildRecord(recs[id], StagesOf(rows, id))
    ELSE NullRecord

\* DELETE FROM file_records WHERE file_id = id, with the cascade when enforced.
DeleteRows(rows, id) ==
    IF ForeignKeysEnforced
    THEN SelectSeq(rows, LAMBDA r : r.file_id # id)
    ELSE rows

DeleteRecordRow(recs, id) == [k \in DOMAIN recs \ {id} |-> recs[k]]

\* create_file_record(file_id, ...): the INSERTs and the commit.
create_file_record(id) ==
    /\ Len(file_stages) + Len(StageNames) <= MaxStageRows
    /\ IF id \in DOMAIN file_records
       THEN \* PRIMARY KEY violation: IntegrityError, the transaction rolls back
            /\ db_ret' = "IntegrityError"
            /\ UNCHANGED <<file_records, file_stages>>
       ELSE /\ file_records' = [k \in DOMAIN file_records \cup {id} |->
                                   IF k = id THEN InitialFileRecord ELSE file_records[k]]
            /\ file_stages' = file_stages \o InitialStageRows(id)
            /\ db_ret' = "ok"

\* update_stage_status(file_id, stage, status, result, error): one transaction
\* under _db_lock.
update_stage_status(id, a) ==
    LET rows1 == UpdateStageRows(file_stages, id, a)
        recs1 == update_file_status(UpdatePaths(file_records, id, a), rows1, id)
    IN IF Truthy(a.error)
       THEN IF id \notin DOMAIN file_records
            THEN \* cursor.fetchone() is None: TypeError, the transaction rolls back
                 /\ db_ret' = "TypeError"
                 /\ UNCHANGED <<file_records, file_stages>>
            ELSE /\ file_records' = AppendError(recs1, id, a)
                 /\ file_stages' = rows1
                 /\ db_ret' = "ok"
       ELSE /\ file_records' = recs1
            /\ file_stages' = rows1
            /\ db_ret' = IF id \in DOMAIN file_records THEN "ok" ELSE "NotFound"

\* Mutant of cleanup_file: a call for an id without a record clears the stage
\* rows stored under the id.
cleanup_fileSweeps(id) ==
    IF id \in DOMAIN file_records
    THEN /\ file_records' = DeleteRecordRow(file_records, id)
         /\ file_stages' = DeleteRows(file_stages, id)
         /\ db_ret' = "cleaned"
    ELSE /\ db_ret' = "NotFound"
         /\ file_stages' = SelectSeq(file_stages, LAMBDA r : r.file_id # id)
         /\ UNCHANGED file_records

\* cleanup_file(file_id)
cleanup_file(id) ==
    IF id \in DOMAIN file_records
    THEN /\ file_records' = DeleteRecordRow(file_records, id)
         /\ file_stages' = DeleteRows(file_stages, id)
         /\ db_ret' = "cleaned"
    ELSE /\ db_ret' = "NotFound"
         /\ UNCHANGED <<file_records, file_stages>>

\* A caller of get_file_record: idle, between its two SELECTs, or returned.
\* `seen` records the committed states of the record during the call.
IdleReader == [pc |-> "idle", id |-> None, row |-> None, result |-> None, seen |-> {}]

\* The status filters list_files is called with: a status, or none.
StatusFilters == Statuses \cup {None}

NoListing == [called |-> FALSE, filter |-> None, files |-> << >>]

\* WHERE status = ? when a filter is given (`if status:`), else every row.
ListedIds(recs, status) ==
    IF Truthy(status) THEN {id \in DOMAIN recs : recs[id].status = status}
    ELSE DOMAIN recs

\* Mutant of OrderedByCreatedDesc: ORDER BY created_at, oldest first.
OrderedByCreatedAsc(recs, S) ==
    {s \in [1..Cardinality(S) -> S] :
        /\ \A i, j \in DOMAIN s : i < j => s[i] # s[j]
        /\ \A i, j \in DOMAIN s : i < j => recs[s[i]].created_at <= recs[s[j]].created_at}

\* The orders ORDER BY created_at DESC may give the rows of S: rows of the
\* same created_at come in either order.
OrderedByCreatedDesc(recs, S) ==
    {s \in [1..Cardinality(S) -> S] :
        /\ \A i, j \in DOMAIN s : i < j => s[i] # s[j]
        /\ \A i, j \in DOMAIN s : i < j => recs[s[i]].created_at >= recs[s[j]].created_at}

\* The dict list_files appends for a row.
ListEntry(recs, rows, id) ==
    [file_id |-> id, status |-> recs[id].status, created_at |-> recs[id].created_at,
     stages |-> StagesOf(rows, id)]

\* list_files(status): the selected rows in order, each with its stages.
list_files(status) ==
    /\ \E s \in OrderedByCreatedDesc(file_records, ListedIds(file_records, status)) :
          listing' = [called |-> TRUE, filter |-> status,
                      files |-> [i \in DOMAIN s |->
                                    ListEntry(file_records, file_stages, s[i])]]
    /\ UNCHANGED <<file_records, file_stages, db_ret>>

\* A call of the store as its caller made it.
Call(op, id) == [op |-> op, id |-> id]

NoCall == Call(None, None)

\* A caller's get_file_record(file_id): None when there is no file row.
\* A caller of update_stage_status: idle, past its commit (the lock is
\* released), inside the get_file_record of its return statement, or
\* returned with the record that call built.
IdleUpdater == [pc |-> "idle", id |-> None, arg |-> None, existed |-> FALSE, ret |-> None]

GetRecord(id) ==
    /\ db_ret' = IF get_file_record(file_records, file_stages, id) = NullRecord
                 THEN "None" ELSE "record"
    /\ UNCHANGED <<file_records, file_stages>>

DbInit ==
    /\ file_records = << >>
    /\ file_stages = << >>
    /\ db_ret = "none"
    /\ reader = IdleReader
    /\ db_call = NoCall
    /\ updater = IdleUpdater
    /\ clock = 0
    /\ listing = NoListing

DbCreate == \E id \in Ids : create_file_record(id)

\* The error log of `id` has room for the entry the update would append.
ErrorLogRoom(id, a, max) ==
    (Truthy(a.error) /\ id \in DOMAIN file_records) =>
        Len(file_records[id].processing_errors) < max

DbUpdate ==
    \E id \in Ids, a \in UpdateArgs :
        ErrorLogRoom(id, a, MaxErrors) /\ update_stage_status(id, a)

DbCleanup == \E id \in Ids : cleanup_file(id)

(***************************************************************************)
(* FileManager (app/services/file_manager.py)                              *)
(***************************************************************************)
\* What process_markdown_file returns when indexing raised: a dict with
\* status "error", which is truthy.
VecError == "vec_error_dict"

\* result.get("document_count", 0) and result.get("vector_type").
DocumentCount(result) == IF result = VecResult THEN 1 ELSE 0

VectorType(result) == IF result = VecResult THEN "milvus" ELSE None

\* The metadata create_file_record saves.
InitialMetadata ==
    [status |-> "uploaded",
     stages |-> [s \in StageSet |->
                   [status |-> IF s = "upload" THEN "completed" ELSE "pending",
                    result |-> None, error |-> None]],
     markdown_path |-> None,
     document_count |-> 0,
     vector_type |-> None,
     processing_errors |-> << >>]

\* The overall status update_stage_status stores, from all the stages.
FmOverallStatus(stages) ==
    IF \A s \in DOMAIN stages : stages[s].status = "completed" THEN "completed"
    ELSE IF \E s \in DOMAIN stages : stages[s].status = "error" THEN "error"
    ELSE "processing"

\* The body of update_stage_status between _load_metadata and
\* _save_metadata, on the loaded metadata md.
ApplyUpdate(md, a) ==
    LET staged == [md.stages EXCEPT
                     ![a.stage].status = a.status,
                     ![a.stage].result = IF Truthy(a.result) THEN a.result ELSE @,
                     ![a.stage].error = IF Truthy(a.error) THEN a.error ELSE @]
        isConvert == a.status = "completed" /\ a.stage = "convert" /\ Truthy(a.result)
        isVectorize == a.status = "completed" /\ a.stage = "vectorize" /\ Truthy(a.result)
    IN  [status |-> FmOverallStatus(staged),
         stages |-> staged,
         markdown_path |-> IF isConvert THEN OutputFile(a.result) ELSE md.markdown_path,
         document_count |-> IF isVectorize THEN DocumentCount(a.result)
                            ELSE md.document_count,
         vector_type |-> IF isVectorize THEN VectorType(a.result) ELSE md.vector_type,
         processing_errors |->
             IF Truthy(a.error)
             THEN Append(md.processing_errors, [stage |-> a.stage, error |-> a.error])
             ELSE md.processing_errors]

\* _save_metadata: the file of `id` is overwritten (or created) with md.
SaveMetadata(blobs, id, md) ==
    [k \in DOMAIN blobs \cup {id} |-> IF k = id THEN md ELSE blobs[k]]

\* update_stage_status run without interruption; `absent` stands for the
\* ValueError of a missing record.
FmUpdated(blobs, id, a) ==
    IF id \in DOMAIN blobs
    THEN [raised |-> FALSE, blobs |-> SaveMetadata(blobs, id, ApplyUpdate(blobs[id], a))]
    ELSE [raised |-> TRUE, blobs |-> blobs]

\* create_file_record: a new uuid4 names the record.
fm_create_file_record(id) ==
    /\ id \notin DOMAIN metadata
    /\ metadata' = SaveMetadata(metadata, id, InitialMetadata)

\* get_file_record: the saved metadata, or None when there is no file.
fm_get_file_record(blobs, id) ==
    IF id \in DOMAIN blobs
    THEN [found |-> TRUE, status |-> blobs[id].status, stages |-> blobs[id].stages,
          markdown_path |-> blobs[id].markdown_path,
          processing_errors |-> blobs[id].processing_errors]
    ELSE NullRecord

\* The workers that call update_stage_status side by side, the record they
\* work on and the updates they issue.
Workers == {"w1", "w2"}

BlobIds == {"f1"}

BlobArgs ==
    {UpdateArg("convert", "processing", None, None),
     UpdateArg("convert", "completed", ConvResult, None),
     UpdateArg("vectorize", "processing", None, None),
     UpdateArg("vectorize", "error", None, "boom")}

IdleWorker == [pc |-> "idle", id |-> None, arg |-> None, md |-> None]

\* update_stage_status, first half: _load_metadata and the existence check.
LoadMetadata(w, id, a) ==
    /\ worker[w].pc = "idle"
    /\ Truthy(a.error) /\ id \in DOMAIN metadata
          => Len(metadata[id].processing_errors) < MaxErrors
    /\ IF id \in DOMAIN metadata
       THEN /\ worker' = [worker EXCEPT
                   ![w] = [pc |-> "loaded", id |-> id, arg |-> a, md |-> metadata[id]]]
            /\ fm_ret' = fm_ret
       ELSE /\ fm_ret' = "ValueError"
            /\ UNCHANGED worker
    /\ UNCHANGED <<metadata, last_write>>

\* update_stage_status, second half: the loaded copy is changed and saved.
\* last_write keeps, for each stage, the status of the latest update that
\* returned.
StoreMetadata(w) ==
    /\ worker[w].pc = "loaded"
    /\ metadata' = SaveMetadata(metadata, worker[w].id,
                                ApplyUpdate(worker[w].md, worker[w].arg))
    /\ last_write' = [last_write EXCEPT
           ![worker[w].id][worker[w].arg.stage] = worker[w].arg.status]
    /\ worker' = [worker EXCEPT ![w] = IdleWorker]
    /\ fm_ret' = "ok"

FmInit ==
    /\ metadata = << >>
    /\ worker = [w \in Workers |-> IdleWorker]
    /\ last_write = [id \in Ids |-> [s \in StageSet |-> None]]
    /\ fm_ret = "none"

(***************************************************************************)
(* convert_and_vectorize_chain (app/core/celery_app.py)                    *)
(***************************************************************************)
\* error_msg of the except blocks.
ConvertErrorMsg == "convert_failed"

ChainErrorMsg == "chain_failed"

\* What the converter and the indexer can do: the indexer either raises
\* (constructing VectorizationProcessor) or fails inside
\* process_markdown_file, which catches it and returns an error dict.
ConvertOutcomes == {"ok", "fail"}

IndexOutcomes == {"ok", "error_dict", "raise"}

NoChain == [pc |-> "none", conv |-> None, index |-> None,
            convert_result |-> None, ret |-> None]

\* A FileManager().update_stage_status call of a task: the metadata is
\* rewritten and the call noted in stage_writes with the status it replaced.
WriteStage(id, a) ==
    /\ metadata' = FmUpdated(metadata, id, a).blobs
    /\ stage_writes' =
         IF FmUpdated(metadata, id, a).raised
         THEN stage_writes
         ELSE [stage_writes EXCEPT ![id] =
                 Append(@, [stage |-> a.stage,
                            from |-> metadata[id].stages[a.stage].status,
                            to |-> a.status])]

\* The pc after a call that raises ValueError when the record is missing.
Then(id, a, pc) == IF FmUpdated(metadata, id, a).raised THEN "except" ELSE pc

\* POST /convert-and-vectorize: the record is created, the upload saved and
\* the chain queued.
convert_and_vectorize(id) ==
    /\ chain[id].pc = "none"
    /\ fm_create_file_record(id)
    /\ chain' = [chain EXCEPT ![id].pc = "queued"]
    /\ UNCHANGED stage_writes

\* Line 321: convert is marked processing.
ChainStart(id) ==
    /\ chain[id].pc = "queued"
    /\ LET a == UpdateArg("convert", "processing", None, None)
       IN  /\ WriteStage(id, a)
           /\ chain' = [chain EXCEPT ![id].pc = Then(id, a, "entered")]

\* _convert_excel_to_markdown, line 108: convert is marked processing again.
ConvertBegin(id) ==
    /\ chain[id].pc = "entered"
    /\ LET a == UpdateArg("convert", "processing", None, None)
       IN  /\ WriteStage(id, a)
           /\ chain' = [chain EXCEPT ![id].pc = Then(id, a, "converting")]

\* _convert_excel_to_markdown, the conversion: on success convert is marked
\* completed with result_info (line 170); on failure convert is marked error
\* (line 183) and the exception goes on to the chain's except block.
\* Mutant of ConvertRun: a failed conversion raises without the error write.
ConvertRunUnmarked(id, outcome) ==
    /\ chain[id].pc = "converting"
    /\ IF outcome = "ok"
       THEN LET a == UpdateArg("convert", "completed", ConvResult, None)
            IN  /\ WriteStage(id, a)
                /\ chain' = [chain EXCEPT
                       ![id].pc = Then(id, a, "converted"),
                       ![id].conv = "ok",
                       ![id].convert_result = ConvResult]
       ELSE /\ chain' = [chain EXCEPT ![id].pc = "except", ![id].conv = "fail"]
            /\ UNCHANGED <<metadata, stage_writes>>

ConvertRun(id, outcome) ==
    /\ chain[id].pc = "converting"
    /\ IF outcome = "ok"
       THEN LET a == UpdateArg("convert", "completed", ConvResult, None)
            IN  /\ WriteStage(id, a)
                /\ chain' = [chain EXCEPT
                       ![id].pc = Then(id, a, "converted"),
                       ![id].conv = "ok",
                       ![id].convert_result = ConvResult]
       ELSE /\ WriteStage(id, UpdateArg("convert", "error", None, ConvertErrorMsg))
            /\ chain' = [chain EXCEPT ![id].pc = "except", ![id].conv = "fail"]

\* Line 327: convert is marked completed again, with convert_result.
ChainConvertDone(id) ==
    /\ chain[id].pc = "converted"
    /\ LET a == UpdateArg("convert", "completed", chain[id].convert_result, None)
       IN  /\ WriteStage(id, a)
           /\ chain' = [chain EXCEPT ![id].pc = Then(id, a, "vectorize_entry")]

\* Mutant of ChainVectorizeStart: vectorize is marked completed at once.
ChainVectorizeStartCompleted(id) ==
    /\ chain[id].pc = "vectorize_entry"
    /\ LET a == UpdateArg("vectorize", "completed", None, None)
       IN  /\ WriteStage(id, a)
           /\ chain' = [chain EXCEPT ![id].pc = Then(id, a, "vectorizing")]

\* Line 333: vectorize is marked processing.
ChainVectorizeStart(id) ==
    /\ chain[id].pc = "vectorize_entry"
    /\ LET a == UpdateArg("vectorize", "processing", None, None)
       IN  /\ WriteStage(id, a)
           /\ chain' = [chain EXCEPT ![id].pc = Then(id, a, "vectorizing")]

\* Lines 336-358: process_file is called and, whatever dict it returns,
\* vectorize is marked completed with it and the chain returns "completed".
IndexRun(id, outcome) ==
    /\ chain[id].pc = "vectorizing"
    /\ IF outcome = "raise"
       THEN /\ chain' = [chain EXCEPT ![id].pc = "except", ![id].index = outcome]
            /\ UNCHANGED <<metadata, stage_writes>>
       ELSE LET vector_result == IF outcome = "ok" THEN VecResult ELSE VecError
                a == UpdateArg("vectorize", "completed", vector_result, None)
            IN  /\ WriteStage(id, a)
                /\ chain' = [chain EXCEPT
                       ![id].pc = Then(id, a, "success"),
                       ![id].index = outcome,
                       ![id].ret = IF FmUpdated(metadata, id, a).raised THEN None
                                   ELSE [status |-> "completed",
                                         convert_result |-> chain[id].convert_result,
                                         vector_result |-> vector_result]]

\* Mutant of ChainExcept: the except block raises without its error write.
ChainExceptSilent(id) ==
    /\ chain[id].pc = "except"
    /\ chain' = [chain EXCEPT ![id].pc = "failed", ![id].ret = "raised"]
    /\ UNCHANGED <<metadata, stage_writes>>

\* Lines 360-371, the chain's except block: vectorize is marked error
\* whichever step failed, and the task fails.
ChainExcept(id) ==
    /\ chain[id].pc = "except"
    /\ WriteStage(id, UpdateArg("vectorize", "error", None, ChainErrorMsg))
    /\ chain' = [chain EXCEPT ![id].pc = "failed", ![id].ret = "raised"]

TaskInit ==
    /\ chain = [id \in Ids |-> NoChain]
    /\ stage_writes = [id \in Ids |-> << >>]

(***************************************************************************)
(* ConnectionManager (app/api/websocket.py)                                *)
(***************************************************************************)
\* WebSocket objects, and the task and file ids clients subscribe to.
Conns == {"ws1", "ws2"}

TaskKeys == {"t1", "t2"}

FileKeys == {"f1"}

\* A dict of subscriber sets is a sequence of [key, conns] entries in
\* insertion order, the order a loop over .items() visits them in.
KeysOf(subs) == {subs[i].key : i \in DOMAIN subs}

IndexOfKey(subs, key) == CHOOSE i \in DOMAIN subs : subs[i].key = key

WithoutEntry(subs, i) ==
    [j \in 1..(Len(subs) - 1) |-> IF j < i THEN subs[j] ELSE subs[j + 1]]

\* self.task_subscriptions[task_id], the connections a publish sends to.
SubscribersOf(subs, key) ==
    IF key \in KeysOf(subs) THEN subs[IndexOfKey(subs, key)].conns ELSE {}

\* subscribe_task / subscribe_file.
subscribe(subs, key, ws) ==
    IF key \in KeysOf(subs)
    THEN [subs EXCEPT ![IndexOfKey(subs, key)].conns = @ \cup {ws}]
    ELSE Append(subs, [key |-> key, conns |-> {ws}])

\* Mutant of unsubscribe: the connection is left in the set.
unsubscribeKeeps(subs, key, ws) == subs

\* Mutant of unsubscribe: a key whose set does not hold the connection is
\* deleted.
unsubscribeDropsKey(subs, key, ws) ==
    IF key \in KeysOf(subs)
    THEN LET i == IndexOfKey(subs, key)
         IN  IF ws \notin subs[i].conns \/ subs[i].conns \ {ws} = {}
             THEN WithoutEntry(subs, i)
             ELSE [subs EXCEPT ![i].conns = @ \ {ws}]
    ELSE subs

\* Mutant of unsubscribe: the emptied set is left under its key.
unsubscribeKeepsKey(subs, key, ws) ==
    IF key \in KeysOf(subs)
    THEN [subs EXCEPT ![IndexOfKey(subs, key)].conns = @ \ {ws}]
    ELSE subs

\* unsubscribe_task / unsubscribe_file.
unsubscribe(subs, key, ws) ==
    IF key \in KeysOf(subs)
    THEN LET i == IndexOfKey(subs, key)
         IN  IF subs[i].conns \ {ws} = {}
             THEN WithoutEntry(subs, i)
             ELSE [subs EXCEPT ![i].conns = @ \ {ws}]
    ELSE subs

\* One of the two loops of disconnect, from entry i on: discard ws from each
\* set; an emptied set is deleted from the dict under iteration, and the
\* loop's next step raises RuntimeError (dictionary changed size during
\* iteration), leaving the entries after it as they were.
RECURSIVE DiscardLoop(_, _, _)
DiscardLoop(subs, ws, i) ==
    IF i > Len(subs)
    THEN [subs |-> subs, raised |-> FALSE]
    ELSE IF subs[i].conns \ {ws} = {}
         THEN [subs |-> WithoutEntry(subs, i), raised |-> TRUE]
         ELSE DiscardLoop([subs EXCEPT ![i].conns = @ \ {ws}], ws, i + 1)

\* disconnect(websocket) on hub state h = [active, tasks, files].
disconnect(h, ws) ==
    LET t == DiscardLoop(h.tasks, ws, 1)
        f == DiscardLoop(h.files, ws, 1)
    IN  IF t.raised
        THEN [active |-> h.active \ {ws}, tasks |-> t.subs, files |-> h.files,
              raised |-> TRUE]
        ELSE [active |-> h.active \ {ws}, tasks |-> t.subs, files |-> f.subs,
              raised |-> f.raised]

Hub == [active |-> active_connections, tasks |-> task_subscriptions,
        files |-> file_subscriptions]

SetHub(h) ==
    /\ active_connections' = h.active
    /\ task_subscriptions' = h.tasks
    /\ file_subscriptions' = h.files

\* The commands websocket_endpoint recognises, and those it answers with an
\* error reply.
Messages ==
    {[type |-> ty, key |-> k] : ty \in {"subscribe_task", "unsubscribe_task"},
                                k \in TaskKeys}
    \cup {[type |-> ty, key |-> k] : ty \in {"subscribe_file", "unsubscribe_file"},
                                     k \in FileKeys}
    \cup {[type |-> "ping", key |-> None]}
    \cup {[type |-> "subscribe_task", key |-> None],
          [type |-> "status", key |-> None],
          [type |-> "malformed", key |-> None]}

\* The commands that carry a task_id or file_id.
KeyedTypes == {"subscribe_task", "unsubscribe_task", "subscribe_file", "unsubscribe_file"}

\* The branches of the endpoint's if/elif chain that reach a
\* send_personal_message: a keyed command only `if task_id:` / `if file_id:`.
Answered(msg) == msg.type \notin KeyedTypes \/ Truthy(msg.key)

\* The manager call a command makes before its reply is sent.
Dispatch(h, msg, ws) ==
    CASE msg.type = "subscribe_task" ->
            [h EXCEPT !.tasks = subscribe(h.tasks, msg.key, ws)]
      [] msg.type = "unsubscribe_task" ->
            [h EXCEPT !.tasks = unsubscribe(h.tasks, msg.key, ws)]
      [] msg.type = "subscribe_file" ->
            [h EXCEPT !.files = subscribe(h.files, msg.key, ws)]
      [] msg.type = "unsubscribe_file" ->
            [h EXCEPT !.files = unsubscribe(h.files, msg.key, ws)]
      [] OTHER -> h

\* websocket_endpoint, up to its loop: manager.connect(websocket).
connect(ws) ==
    /\ endpoint[ws] = "new"
    /\ active_connections' = active_connections \cup {ws}
    /\ endpoint' = [endpoint EXCEPT ![ws] = "open"]
    /\ hub_ret' = "connected"
    /\ UNCHANGED <<task_subscriptions, file_subscriptions>>

\* One turn of the endpoint's loop: a command is dispatched and its reply
\* sent with send_personal_message.  A failed send disconnects the socket; a
\* RuntimeError out of that disconnect reaches the endpoint's
\* `except Exception`, which disconnects once more and ends the endpoint.
\* After a failed send that did not raise, the socket is broken and the next
\* receive_text ends the endpoint.
\* Text that is not JSON raises out of json.loads into `except Exception`,
\* which disconnects and ends the endpoint; a keyed command without its key
\* is passed over without a reply.
HandleMessage(ws, msg, sent) ==
    /\ endpoint[ws] = "open"
    /\ LET h  == Dispatch(Hub, msg, ws)
           d1 == disconnect(h, ws)
           d2 == disconnect(d1, ws)
           d0 == disconnect(Hub, ws)
       IN  IF msg.type = "malformed"
           THEN /\ SetHub(d0)
                /\ endpoint' = [endpoint EXCEPT ![ws] = "closed"]
                /\ hub_ret' = IF d0.raised THEN "RuntimeError" ELSE "closed"
           ELSE IF ~Answered(msg)
           THEN /\ hub_ret' = "no_reply"
                /\ UNCHANGED <<active_connections, task_subscriptions,
                               file_subscriptions, endpoint>>
           ELSE IF sent
           THEN /\ SetHub(h)
                /\ hub_ret' = "replied"
                /\ UNCHANGED endpoint
           ELSE IF d1.raised
                THEN /\ SetHub(d2)
                     /\ endpoint' = [endpoint EXCEPT ![ws] = "closed"]
                     /\ hub_ret' = IF d2.raised THEN "RuntimeError" ELSE "closed"
                ELSE /\ SetHub(d1)
                     /\ endpoint' = [endpoint EXCEPT ![ws] = "broken"]
                     /\ hub_ret' = "send_failed"

\* The client closes its connection: receive_text raises WebSocketDisconnect
\* and the endpoint ends in manager.disconnect(websocket).
ClientClose(ws) ==
    /\ endpoint[ws] \in {"open", "broken"}
    /\ LET d == disconnect(Hub, ws)
       IN  /\ SetHub(d)
           /\ hub_ret' = IF d.raised THEN "RuntimeError" ELSE "closed"
    /\ endpoint' = [endpoint EXCEPT ![ws] = "closed"]

HubInit ==
    /\ active_connections = {}
    /\ task_subscriptions = << >>
    /\ file_subscriptions = << >>
    /\ endpoint = [ws \in Conns |-> "new"]
    /\ hub_ret = "none"

(***************************************************************************)
(* Publishing: send_to_task_subscribers, send_to_file_subscribers and      *)
(* broadcast (app/api/websocket.py)                                        *)
(***************************************************************************)
\* The publish calls: a task id, a file id, or every live connection.
PublishCalls ==
    {[kind |-> "task", key |-> k] : k \in TaskKeys}
    \cup {[kind |-> "file", key |-> k] : k \in FileKeys}
    \cup {[kind |-> "broadcast", key |-> None]}

IdleFanout ==
    [pc |-> "idle", kind |-> None, key |-> None, current |-> None, size |-> 0,
     detached |-> FALSE, targets |-> {}, attempted |-> {}, delivered |-> {},
     disconnected |-> {}, left |-> {}, barred |-> {}, ret |-> None]

\* Mutant of TargetSet: a publish to a task key loops over the file
\* subscribers of the key as well, and the other way round.
TargetSetAnyKind(kind, key) ==
    CASE kind \in {"task", "file"} ->
            SubscribersOf(task_subscriptions, key) \cup SubscribersOf(file_subscriptions, key)
      [] OTHER -> active_connections

\* The set a publish call loops over, as the hub holds it now.
TargetSet(kind, key) ==
    CASE kind = "task" -> SubscribersOf(task_subscriptions, key)
      [] kind = "file" -> SubscribersOf(file_subscriptions, key)
      [] OTHER -> active_connections

\* The set object under the loop of the publish in progress: the set of the
\* key while its dict entry lives; once the entry has been deleted, the
\* emptied set the loop still holds.
IteratedSet == IF fanout.detached THEN {} ELSE TargetSet(fanout.kind, fanout.key)

\* The orders in which `for connection in disconnected` can visit the set.
Orders(S) ==
    {o \in [1..Cardinality(S) -> S] :
        \A i, j \in 1..Cardinality(S) : i # j => o[i] # o[j]}

\* The clean-up loop of a publish: disconnect each failed connection in
\* turn; a RuntimeError out of disconnect ends the loop and the publish.
RECURSIVE DisconnectAll(_, _, _)
DisconnectAll(h, order, i) ==
    IF i > Len(order)
    THEN [h |-> h, raised |-> FALSE]
    ELSE IF disconnect(h, order[i]).raised
         THEN [h |-> disconnect(h, order[i]), raised |-> TRUE]
         ELSE DisconnectAll(disconnect(h, order[i]), order, i + 1)

\* A publish is called: nothing to do for a key without entry (or with no
\* live connection); otherwise the loop takes its first connection and
\* awaits send_text on it.
PublishBegin(call) ==
    /\ fanout.pc = "idle"
    /\ LET s == TargetSet(call.kind, call.key)
       IN  IF s = {}
           THEN fanout' = [IdleFanout EXCEPT !.pc = "done", !.kind = call.kind,
                                             !.key = call.key, !.ret = "returned"]
           ELSE \E ws \in s :
                   fanout' = [IdleFanout EXCEPT
                       !.pc = "sending", !.kind = call.kind, !.key = call.key,
                       !.current = ws, !.size = Cardinality(s),
                       !.targets = s, !.attempted = {ws},
                       !.barred = {c \in Conns :
                                     <<c, call.kind, call.key>> \in unsubscribed}]
    /\ UNCHANGED <<active_connections, task_subscriptions, file_subscriptions,
                   endpoint, hub_ret, unsubscribed>>

\* The awaited send_text returns or raises, and the loop goes on: the set
\* iterator raises RuntimeError when the set has changed size since the loop
\* began; otherwise the next connection is taken, or the loop ends and the
\* failed connections are disconnected.  A connection whose send failed has
\* a dead socket.
PublishSent(ok) ==
    /\ fanout.pc = "sending"
    /\ endpoint' = IF ok \/ endpoint[fanout.current] # "open" THEN endpoint
                   ELSE [endpoint EXCEPT ![fanout.current] = "broken"]
    /\ LET f == [fanout EXCEPT
                   !.delivered = IF ok THEN @ \cup {fanout.current} ELSE @,
                   !.disconnected = IF ok THEN @ ELSE @ \cup {fanout.current},
                   !.current = None]
           s == IteratedSet
       IN  \/ /\ Cardinality(s) # fanout.size
              /\ fanout' = [f EXCEPT !.pc = "done", !.ret = "RuntimeError"]
              /\ hub_ret' = "RuntimeError"
              /\ UNCHANGED <<active_connections, task_subscriptions, file_subscriptions>>
           \/ /\ Cardinality(s) = fanout.size
              /\ \E nxt \in s \ fanout.attempted :
                    fanout' = [f EXCEPT !.current = nxt, !.attempted = @ \cup {nxt}]
              /\ UNCHANGED <<active_connections, task_subscriptions,
                             file_subscriptions, hub_ret>>
           \/ /\ Cardinality(s) = fanout.size
              /\ (s \cap fanout.targets) \ fanout.attempted = {}
              /\ \E order \in Orders(f.disconnected) :
                    LET r == DisconnectAll(Hub, order, 1)
                    IN  /\ SetHub(r.h)
                        /\ hub_ret' = IF r.raised THEN "RuntimeError" ELSE "returned"
                        /\ fanout' = [f EXCEPT !.pc = "done", !.ret = hub_ret']
    /\ UNCHANGED unsubscribed

\* The caller of the publish takes its outcome.
PublishReturn ==
    /\ fanout.pc = "done"
    /\ fanout' = IdleFanout
    /\ UNCHANGED <<active_connections, task_subscriptions, file_subscriptions,
                   endpoint, hub_ret, unsubscribed>>

\* An endpoint runs while a publish awaits a send: when the entry of the
\* publish's key is deleted, the loop is left with the emptied set.  `left`
\* keeps the connections the publish began with that have gone from its set.
WhilePublishing ==
    fanout' =
        IF fanout.pc = "sending"
        THEN [fanout EXCEPT
                !.detached =
                    \/ @
                    \/ fanout.kind = "task" /\ fanout.key \notin KeysOf(task_subscriptions')
                    \/ fanout.kind = "file" /\ fanout.key \notin KeysOf(file_subscriptions'),
                !.left = @ \cup
                    (fanout.targets \
                        CASE fanout.kind = "task"
                                -> SubscribersOf(task_subscriptions', fanout.key)
                          [] fanout.kind = "file"
                                -> SubscribersOf(file_subscriptions', fanout.key)
                          [] OTHER -> active_connections')]
        ELSE fanout

\* unsubscribed keeps the <<connection, kind, key>> of every subscription
\* ended by an unsubscribe command and not taken up again.
NoteMessage(ws, msg) ==
    unsubscribed' =
        CASE msg.type = "unsubscribe_task" /\ ws \in SubscribersOf(task_subscriptions, msg.key)
                -> unsubscribed \cup {<<ws, "task", msg.key>>}
          [] msg.type = "unsubscribe_file" /\ ws \in SubscribersOf(file_subscriptions, msg.key)
                -> unsubscribed \cup {<<ws, "file", msg.key>>}
          [] msg.type = "subscribe_task" -> unsubscribed \ {<<ws, "task", msg.key>>}
          [] msg.type = "subscribe_file" -> unsubscribed \ {<<ws, "file", msg.key>>}
          [] OTHER -> unsubscribed

PublishInit ==
    /\ fanout = IdleFanout
    /\ unsubscribed = {}

(***************************************************************************)
(* batch_convert_excel_to_markdown and vectorize_markdown                  *)
(* (app/core/celery_app.py)                                                *)
(***************************************************************************)
\* error_msg of vectorize_markdown's except block, and the ValueError of
\* update_stage_status for a record that is not there.
IndexErrorMsg == "index_failed"

NotFoundMsg == "record_missing"

\* Mutant of Raised: a failed write of the error status replaces the error.
RaisedStoreError(original, write_failed) ==
    IF write_failed THEN NotFoundMsg ELSE original

\* The except blocks of the stage handlers: the write of the error status is
\* tried and its failure dropped (`except: pass`); the exception raised
\* carries the error that brought the handler there.
Raised(original, write_failed) == original

\* FileManager.cleanup_file: the metadata file of the record is removed.
fm_cleanup_file(id) ==
    IF id \in DOMAIN metadata
    THEN /\ metadata' = [k \in DOMAIN metadata \ {id} |-> metadata[k]]
         /\ fm_ret' = "cleaned"
    ELSE /\ fm_ret' = "error_dict"
         /\ UNCHANGED metadata

\* The numbers of files a batch is submitted with.
BatchSizes == 0..Cardinality(Ids)

\* The lists of n different new ids.
NewIds(n) ==
    {s \in [1..n -> Ids \ DOMAIN metadata] : \A i, j \in 1..n : i # j => s[i] # s[j]}

NoBatch ==
    [pc |-> "idle", file_ids |-> << >>, i |-> 0, step |-> None, results |-> << >>,
     outcomes |-> << >>, success_count |-> 0, error_count |-> 0, ret |-> None]

\* The batch loop's except branch: an error entry for the item.
ItemFailed(b, id, msg, conv, write) ==
    [b EXCEPT !.results = Append(@, [status |-> "error", file_id |-> id, error |-> msg]),
              !.outcomes = Append(@, [conv |-> conv, error_write |-> write]),
              !.error_count = @ + 1,
              !.i = @ + 1,
              !.step = "begin"]

\* The batch loop's try branch: the item's result_info.
ItemConverted(b, id) ==
    [b EXCEPT !.results = Append(@, [status |-> "success", file_id |-> id, error |-> None]),
              !.outcomes = Append(@, [conv |-> "ok", error_write |-> None]),
              !.success_count = @ + 1,
              !.i = @ + 1,
              !.step = "begin"]

\* The batch task starts without file_ids: a record is created for each
\* path, in the order of the paths.
BatchStart(ids) ==
    /\ batch.pc = "idle"
    /\ metadata' = [k \in DOMAIN metadata \cup {ids[i] : i \in DOMAIN ids} |->
                       IF k \in DOMAIN metadata THEN metadata[k] ELSE InitialMetadata]
    /\ batch' = [NoBatch EXCEPT !.pc = "running", !.file_ids = ids, !.i = 1,
                                !.step = "begin"]
    /\ UNCHANGED stage_writes

\* _convert_excel_to_markdown for item i, line 108: convert is marked
\* processing.  When the record is gone the ValueError takes the helper to
\* its except block and the batch to the item's error entry.
BatchItemBegin ==
    /\ batch.pc = "running"
    /\ batch.i <= Len(batch.file_ids)
    /\ batch.step = "begin"
    /\ LET id == batch.file_ids[batch.i]
           a == UpdateArg("convert", "processing", None, None)
       IN  /\ WriteStage(id, a)
           /\ batch' = IF FmUpdated(metadata, id, a).raised
                       THEN ItemFailed(batch, id, Raised(NotFoundMsg, TRUE), None,
                                       "ValueError")
                       ELSE [batch EXCEPT !.step = "convert"]

\* Mutant of BatchItemRun: a failed item ends the batch.
BatchItemRunAborts(outcome) ==
    /\ batch.pc = "running"
    /\ batch.i <= Len(batch.file_ids)
    /\ batch.step = "convert"
    /\ LET id == batch.file_ids[batch.i]
           done == UpdateArg("convert", "completed", ConvResult, None)
           failed == UpdateArg("convert", "error", None, ConvertErrorMsg)
       IN  IF outcome = "ok"
           THEN /\ WriteStage(id, done)
                /\ batch' = ItemConverted(batch, id)
           ELSE /\ WriteStage(id, failed)
                /\ batch' = [batch EXCEPT !.pc = "failed", !.ret = "raised"]

\* Mutant of BatchItemRun: a failed item is not counted.
BatchItemRunUncounted(outcome) ==
    /\ batch.pc = "running"
    /\ batch.i <= Len(batch.file_ids)
    /\ batch.step = "convert"
    /\ LET id == batch.file_ids[batch.i]
           done == UpdateArg("convert", "completed", ConvResult, None)
           failed == UpdateArg("convert", "error", None, ConvertErrorMsg)
       IN  IF outcome = "ok"
           THEN /\ WriteStage(id, done)
                /\ batch' = ItemConverted(batch, id)
           ELSE /\ WriteStage(id, failed)
                /\ batch' = [ItemFailed(batch, id, ConvertErrorMsg, "fail", "saved")
                                EXCEPT !.error_count = batch.error_count]

\* _convert_excel_to_markdown for item i, the conversion and what follows:
\* convert is marked completed with result_info (line 170) and the item
\* counted a success; or convert is marked error (line 183), the helper
\* raises and the batch appends the item's error entry and goes on.
BatchItemRun(outcome) ==
    /\ batch.pc = "running"
    /\ batch.i <= Len(batch.file_ids)
    /\ batch.step = "convert"
    /\ LET id == batch.file_ids[batch.i]
           done == UpdateArg("convert", "completed", ConvResult, None)
           failed == UpdateArg("convert", "error", None, ConvertErrorMsg)
           gone == id \notin DOMAIN metadata
       IN  IF outcome = "ok"
           THEN /\ WriteStage(id, done)
                /\ batch' = IF gone
                            THEN ItemFailed(batch, id, Raised(NotFoundMsg, TRUE), "ok",
                                            "ValueError")
                            ELSE ItemConverted(batch, id)
           ELSE /\ WriteStage(id, failed)
                /\ batch' = ItemFailed(batch, id, Raised(ConvertErrorMsg, gone), "fail",
                                       IF gone THEN "ValueError" ELSE "saved")

\* Lines 252-264: the loop is over and the batch returns its result.
BatchFinish ==
    /\ batch.pc = "running"
    /\ batch.i > Len(batch.file_ids)
    /\ batch' = [batch EXCEPT
           !.pc = "done",
           !.ret = [status |-> "completed",
                    total_files |-> Len(batch.file_ids),
                    success_count |-> batch.success_count,
                    error_count |-> batch.error_count,
                    results |-> batch.results,
                    file_ids |-> batch.file_ids]]
    /\ UNCHANGED <<metadata, stage_writes>>

NoVectorize == [pc |-> "none", index |-> None, error |-> None, error_write |-> None,
                ret |-> None]

\* vectorize_markdown is queued with the convert_result of a converted item.
VectorizeSubmit(id) ==
    /\ vtask[id].pc = "none"
    /\ \E k \in DOMAIN batch.results :
          batch.results[k].file_id = id /\ batch.results[k].status = "success"
    /\ vtask' = [vtask EXCEPT ![id].pc = "queued"]
    /\ UNCHANGED <<metadata, stage_writes>>

\* vectorize_markdown, line 282: vectorize is marked processing.
VectorizeStart(id) ==
    /\ vtask[id].pc = "queued"
    /\ LET a == UpdateArg("vectorize", "processing", None, None)
       IN  /\ WriteStage(id, a)
           /\ vtask' = IF FmUpdated(metadata, id, a).raised
                       THEN [vtask EXCEPT ![id].pc = "failed",
                                          ![id].error = Raised(NotFoundMsg, TRUE),
                                          ![id].error_write = "ValueError"]
                       ELSE [vtask EXCEPT ![id].pc = "running"]

\* vectorize_markdown, lines 284-311: process_file is called and vectorize
\* marked completed with the dict it returns, which is the task's result; an
\* exception takes the task to its except block, where vectorize is marked
\* error if the store lets it, and the task fails.
VectorizeRun(id, outcome) ==
    /\ vtask[id].pc = "running"
    /\ LET gone == id \notin DOMAIN metadata
           vector_result == IF outcome = "ok" THEN VecResult ELSE VecError
       IN  IF outcome = "raise"
           THEN /\ WriteStage(id, UpdateArg("vectorize", "error", None, IndexErrorMsg))
                /\ vtask' = [vtask EXCEPT
                       ![id].pc = "failed",
                       ![id].index = outcome,
                       ![id].error = Raised(IndexErrorMsg, gone),
                       ![id].error_write = IF gone THEN "ValueError" ELSE "saved"]
           ELSE /\ WriteStage(id, UpdateArg("vectorize", "completed", vector_result, None))
                /\ vtask' = IF gone
                            THEN [vtask EXCEPT
                                    ![id].pc = "failed",
                                    ![id].index = outcome,
                                    ![id].error = Raised(NotFoundMsg, TRUE),
                                    ![id].error_write = "ValueError"]
                            ELSE [vtask EXCEPT
                                    ![id].pc = "success",
                                    ![id].index = outcome,
                                    ![id].ret = vector_result]

\* Mutant of BatchKilled: the killed task's message goes back to the queue.
BatchKilledRequeued ==
    /\ batch.pc = "running"
    /\ batch' = [batch EXCEPT !.i = 1, !.step = "begin", !.results = << >>,
                              !.outcomes = << >>, !.success_count = 0,
                              !.error_count = 0]
    /\ UNCHANGED <<metadata, stage_writes>>

\* task_time_limit with task_acks_late and no reject_on_worker_lost: the
\* worker process of a task over its hard limit is killed, and the task's
\* message is acknowledged, not delivered again.
BatchKilled ==
    /\ batch.pc = "running"
    /\ batch' = [batch EXCEPT !.pc = "killed"]
    /\ UNCHANGED <<metadata, stage_writes>>

VectorizeKilled(id) ==
    /\ vtask[id].pc = "running"
    /\ vtask' = [vtask EXCEPT ![id].pc = "killed"]
    /\ UNCHANGED <<metadata, stage_writes>>

\* AsyncResult(task_id).state of the batch task: no handler calls
\* update_state and task_track_started is not set, so a task that has not
\* ended is PENDING.
AsyncResultState(b) ==
    CASE b.pc = "done" -> "SUCCESS"
      [] b.pc \in {"failed", "killed"} -> "FAILURE"
      [] OTHER -> "PENDING"

\* GET /task/{task_id} for the batch task.
get_task_status(b) ==
    CASE AsyncResultState(b) = "PENDING" -> [state |-> "pending"]
      [] AsyncResultState(b) = "PROGRESS" -> [state |-> "progress", progress |-> 0]
      [] AsyncResultState(b) = "SUCCESS" -> [state |-> "success", result |-> b.ret]
      [] OTHER -> [state |-> "failure"]

JobInit ==
    /\ batch = NoBatch
    /\ vtask = [id \in Ids |-> NoVectorize]

(***************************************************************************)
(* Specifications                                                          *)
(***************************************************************************)
Init == DbInit /\ FmInit /\ TaskInit /\ HubInit /\ PublishInit /\ JobInit

\* The table-backed store driven one call at a time.
StoreCreate == DbCreate /\ UNCHANGED <<reader, db_call, updater, listVars, fmVars, taskVars, hubVars>>

StoreUpdate == DbUpdate /\ UNCHANGED <<reader, db_call, updater, listVars, fmVars, taskVars, hubVars>>

StoreCleanup == DbCleanup /\ UNCHANGED <<reader, db_call, updater, listVars, fmVars, taskVars, hubVars>>

StoreNext == StoreCreate \/ StoreUpdate \/ StoreCleanup

SpecStore == Init /\ [][StoreNext]_vars

\* get_file_record, first SELECT: the file row, on a connection of its own
\* and outside _db_lock.
ReadFileRow(id) ==
    /\ reader.pc = "idle"
    /\ reader' =
         IF id \in DOMAIN file_records
         THEN [pc |-> "got_row", id |-> id, row |-> file_records[id], result |-> None,
               seen |-> {get_file_record(file_records, file_stages, id)}]
         ELSE [pc |-> "done", id |-> id, row |-> None, result |-> NullRecord,
               seen |-> {NullRecord}]
    /\ UNCHANGED <<file_records, file_stages, db_ret>>

\* get_file_record, second SELECT: the stage rows, in a transaction of its own.
ReadStages ==
    /\ reader.pc = "got_row"
    /\ reader' = [reader EXCEPT
            !.pc = "done",
            !.result = BuildRecord(reader.row, StagesOf(file_stages, reader.id))]
    /\ UNCHANGED <<file_records, file_stages, db_ret>>

ReadReturn ==
    /\ reader.pc = "done"
    /\ reader' = IdleReader
    /\ UNCHANGED <<file_records, file_stages, db_ret>>

\* A commit while a read is in progress: the read's record of committed states
\* grows by the new one.
NoteCommit ==
    /\ reader.pc = "got_row" => Cardinality(reader.seen) < MaxSeen
    /\ reader' =
         IF reader.pc = "got_row"
         THEN [reader EXCEPT !.seen =
                  @ \cup {get_file_record(file_records', file_stages', reader.id)}]
         ELSE reader

\* The record the concurrent runs work on.
ConcIds == {"f1"}

ConcCreate ==
    /\ \E id \in ConcIds : create_file_record(id)
    /\ NoteCommit
    /\ UNCHANGED <<db_call, updater, listVars, fmVars, taskVars, hubVars>>

\* The updates the concurrent writers issue.
ConcArgs ==
    {UpdateArg("convert", "processing", None, None),
     UpdateArg("convert", "completed", ConvResult, None),
     UpdateArg("convert", "error", None, "boom"),
     UpdateArg("vectorize", "processing", None, None)}

ConcUpdate ==
    /\ \E id \in ConcIds, a \in ConcArgs :
          ErrorLogRoom(id, a, MaxErrors) /\ update_stage_status(id, a)
    /\ NoteCommit
    /\ UNCHANGED <<db_call, updater, listVars, fmVars, taskVars, hubVars>>

ConcCleanup ==
    /\ \E id \in ConcIds : cleanup_file(id)
    /\ NoteCommit
    /\ UNCHANGED <<db_call, updater, listVars, fmVars, taskVars, hubVars>>

ConcRead ==
    (\E id \in ConcIds : ReadFileRow(id)) /\ UNCHANGED <<db_call, updater, listVars, fmVars, taskVars, hubVars>>

ConcReadStages == ReadStages /\ UNCHANGED <<db_call, updater, listVars, fmVars, taskVars, hubVars>>

ConcReadReturn == ReadReturn /\ UNCHANGED <<db_call, updater, listVars, fmVars, taskVars, hubVars>>

\* The table-backed store with a reader running beside the writers.
StoreConcNext ==
    ConcCreate \/ ConcUpdate \/ ConcCleanup \/ ConcRead \/ ConcReadStages \/ ConcReadReturn

SpecStoreConc == Init /\ [][StoreConcNext]_vars

\* update_stage_status as its caller sees it: the transaction under
\* _db_lock, then `return self.get_file_record(file_id)` outside the lock,
\* with the other writers' calls in between.  A TypeError ends the call.
RetCreate ==
    /\ \E id \in ConcIds : create_file_record(id)
    /\ UNCHANGED <<reader, db_call, updater, listVars, fmVars, taskVars, hubVars>>

RetOtherUpdate ==
    /\ \E id \in ConcIds, a \in ConcArgs :
          ErrorLogRoom(id, a, MaxErrors) /\ update_stage_status(id, a)
    /\ UNCHANGED <<reader, db_call, updater, listVars, fmVars, taskVars, hubVars>>

RetCleanup ==
    /\ \E id \in ConcIds : cleanup_file(id)
    /\ UNCHANGED <<reader, db_call, updater, listVars, fmVars, taskVars, hubVars>>

RetUpdateCommit ==
    /\ updater.pc = "idle"
    /\ \E id \in ConcIds, a \in ConcArgs :
          /\ ErrorLogRoom(id, a, MaxErrors)
          /\ update_stage_status(id, a)
          /\ updater' = IF Truthy(a.error) /\ id \notin DOMAIN file_records
                        THEN IdleUpdater
                        ELSE [pc |-> "committed", id |-> id, arg |-> a,
                              existed |-> id \in DOMAIN file_records, ret |-> None]
    /\ UNCHANGED <<reader, db_call, listVars, fmVars, taskVars, hubVars>>

RetUpdateRead ==
    /\ updater.pc = "committed"
    /\ ReadFileRow(updater.id)
    /\ updater' = [updater EXCEPT !.pc = "reading"]
    /\ UNCHANGED <<db_call, listVars, fmVars, taskVars, hubVars>>

RetReadStages ==
    /\ updater.pc = "reading"
    /\ ReadStages
    /\ UNCHANGED <<db_call, updater, listVars, fmVars, taskVars, hubVars>>

RetUpdateReturn ==
    /\ updater.pc = "reading"
    /\ reader.pc = "done"
    /\ updater' = [updater EXCEPT !.pc = "returned", !.ret = reader.result]
    /\ ReadReturn
    /\ UNCHANGED <<db_call, listVars, fmVars, taskVars, hubVars>>

RetUpdateDone ==
    /\ updater.pc = "returned"
    /\ updater' = IdleUpdater
    /\ UNCHANGED <<file_records, file_stages, db_ret, reader, db_call, listVars,
                   fmVars, taskVars, hubVars>>

StoreRetNext ==
    \/ RetCreate \/ RetOtherUpdate \/ RetCleanup \/ RetUpdateCommit \/ RetUpdateRead
    \/ RetReadStages \/ RetUpdateReturn \/ RetUpdateDone

SpecStoreRet == Init /\ [][StoreRetNext]_vars

\* The metadata files under two workers whose updates interleave.
BlobCreate ==
    /\ \E id \in BlobIds : fm_create_file_record(id)
    /\ fm_ret' = "created"
    /\ UNCHANGED <<worker, last_write, dbVars, taskVars, hubVars>>

BlobLoad ==
    /\ \E w \in Workers, id \in BlobIds, a \in BlobArgs : LoadMetadata(w, id, a)
    /\ UNCHANGED <<dbVars, taskVars, hubVars>>

BlobStore ==
    /\ \E w \in Workers : StoreMetadata(w)
    /\ UNCHANGED <<dbVars, taskVars, hubVars>>

BlobNext == BlobCreate \/ BlobLoad \/ BlobStore

SpecBlob == Init /\ [][BlobNext]_vars

\* Uploads through /convert-and-vectorize and the chain tasks they queue.
TaskSubmit ==
    /\ \E id \in Ids : convert_and_vectorize(id)
    /\ UNCHANGED <<worker, last_write, fm_ret, dbVars, hubVars, jobVars>>

TaskChainStart ==
    /\ \E id \in Ids : ChainStart(id)
    /\ UNCHANGED <<worker, last_write, fm_ret, dbVars, hubVars, jobVars>>

TaskConvertBegin ==
    /\ \E id \in Ids : ConvertBegin(id)
    /\ UNCHANGED <<worker, last_write, fm_ret, dbVars, hubVars, jobVars>>

TaskConvertRun ==
    /\ \E id \in Ids, outcome \in ConvertOutcomes : ConvertRun(id, outcome)
    /\ UNCHANGED <<worker, last_write, fm_ret, dbVars, hubVars, jobVars>>

TaskChainConvertDone ==
    /\ \E id \in Ids : ChainConvertDone(id)
    /\ UNCHANGED <<worker, last_write, fm_ret, dbVars, hubVars, jobVars>>

TaskChainVectorizeStart ==
    /\ \E id \in Ids : ChainVectorizeStart(id)
    /\ UNCHANGED <<worker, last_write, fm_ret, dbVars, hubVars, jobVars>>

TaskIndexRun ==
    /\ \E id \in Ids, outcome \in IndexOutcomes : IndexRun(id, outcome)
    /\ UNCHANGED <<worker, last_write, fm_ret, dbVars, hubVars, jobVars>>

TaskChainExcept ==
    /\ \E id \in Ids : ChainExcept(id)
    /\ UNCHANGED <<worker, last_write, fm_ret, dbVars, hubVars, jobVars>>

TasksNext ==
    \/ TaskSubmit \/ TaskChainStart \/ TaskConvertBegin \/ TaskConvertRun
    \/ TaskChainConvertDone \/ TaskChainVectorizeStart \/ TaskIndexRun
    \/ TaskChainExcept

SpecTasks == Init /\ [][TasksNext]_vars

\* A batch conversion, the vectorize tasks queued on its results, and
\* DELETE /file/{file_id} beside them.
JobBatchStart ==
    /\ \E n \in BatchSizes : \E ids \in NewIds(n) : BatchStart(ids)
    /\ UNCHANGED <<vtask, chain, worker, last_write, fm_ret, dbVars, hubVars>>

JobBatchItemBegin ==
    /\ BatchItemBegin
    /\ UNCHANGED <<vtask, chain, worker, last_write, fm_ret, dbVars, hubVars>>

JobBatchItemRun ==
    /\ \E outcome \in ConvertOutcomes : BatchItemRun(outcome)
    /\ UNCHANGED <<vtask, chain, worker, last_write, fm_ret, dbVars, hubVars>>

JobBatchFinish ==
    /\ BatchFinish
    /\ UNCHANGED <<vtask, chain, worker, last_write, fm_ret, dbVars, hubVars>>

JobVectorizeSubmit ==
    /\ \E id \in Ids : VectorizeSubmit(id)
    /\ UNCHANGED <<batch, chain, worker, last_write, fm_ret, dbVars, hubVars>>

JobVectorizeStart ==
    /\ \E id \in Ids : VectorizeStart(id)
    /\ UNCHANGED <<batch, chain, worker, last_write, fm_ret, dbVars, hubVars>>

JobVectorizeRun ==
    /\ \E id \in Ids, outcome \in IndexOutcomes : VectorizeRun(id, outcome)
    /\ UNCHANGED <<batch, chain, worker, last_write, fm_ret, dbVars, hubVars>>

JobBatchKilled ==
    /\ BatchKilled
    /\ UNCHANGED <<vtask, chain, worker, last_write, fm_ret, dbVars, hubVars>>

JobVectorizeKilled ==
    /\ \E id \in Ids : VectorizeKilled(id)
    /\ UNCHANGED <<batch, chain, worker, last_write, fm_ret, dbVars, hubVars>>

JobCleanup ==
    /\ \E id \in Ids : fm_cleanup_file(id)
    /\ UNCHANGED <<batch, vtask, chain, stage_writes, worker, last_write, dbVars, hubVars>>

JobsNext ==
    \/ JobBatchStart \/ JobBatchItemBegin \/ JobBatchItemRun \/ JobBatchFinish
    \/ JobVectorizeSubmit \/ JobVectorizeStart \/ JobVectorizeRun \/ JobCleanup
    \/ JobBatchKilled \/ JobVectorizeKilled

SpecJobs == Init /\ [][JobsNext]_vars

\* The chain, the batch and the vectorize tasks on workers that are not
\* killed, with no record deleted under them: every store write succeeds.  A
\* worker that holds a task goes on with it (WorkerStep is taken while it
\* is enabled); requests come when they come.
WorkerStep ==
    \/ TaskChainStart \/ TaskConvertBegin \/ TaskConvertRun \/ TaskChainConvertDone
    \/ TaskChainVectorizeStart \/ TaskIndexRun \/ TaskChainExcept
    \/ JobBatchItemBegin \/ JobBatchItemRun \/ JobBatchFinish
    \/ JobVectorizeStart \/ JobVectorizeRun

WorkNext == TaskSubmit \/ JobBatchStart \/ JobVectorizeSubmit \/ WorkerStep

SpecWork == Init /\ [][WorkNext]_vars /\ WF_vars(WorkerStep)

\* DatabaseManager with one record, updates of unknown stages among its
\* calls, and an error log of more than one entry.
OneIds == {"f1"}

OneArgs == UpdateArgs \cup InvalidStageArgs

OneCreate ==
    /\ \E id \in OneIds :
          create_file_record(id) /\ db_call' = Call("create_file_record", id)
    /\ UNCHANGED <<reader, updater, listVars, fmVars, taskVars, hubVars>>

OneUpdate ==
    /\ \E id \in OneIds, a \in OneArgs :
          /\ ErrorLogRoom(id, a, MaxLog)
          /\ update_stage_status(id, a)
          /\ db_call' = Call("update_stage_status", id)
    /\ UNCHANGED <<reader, updater, listVars, fmVars, taskVars, hubVars>>

OneCleanup ==
    /\ \E id \in OneIds : cleanup_file(id) /\ db_call' = Call("cleanup_file", id)
    /\ UNCHANGED <<reader, updater, listVars, fmVars, taskVars, hubVars>>

OneGet ==
    /\ \E id \in OneIds : GetRecord(id) /\ db_call' = Call("get_file_record", id)
    /\ UNCHANGED <<reader, updater, listVars, fmVars, taskVars, hubVars>>

StoreOneNext == OneCreate \/ OneUpdate \/ OneCleanup \/ OneGet

SpecStoreOne == Init /\ [][StoreOneNext]_vars

\* DatabaseManager with a clock behind its creation times and list_files
\* among its calls.
ListArgs ==
    {UpdateArg("convert", "processing", None, None),
     UpdateArg("convert", "completed", ConvResult, None),
     UpdateArg("vectorize", "completed", VecResult, None),
     UpdateArg("vectorize", "error", None, "boom")}

ListCreate ==
    /\ \E id \in Ids : create_file_record(id)
    /\ listing' = NoListing
    /\ UNCHANGED <<reader, db_call, updater, clock, fmVars, taskVars, hubVars>>

ListUpdate ==
    /\ \E id \in DOMAIN file_records, a \in ListArgs :
          ErrorLogRoom(id, a, MaxErrors) /\ update_stage_status(id, a)
    /\ listing' = NoListing
    /\ UNCHANGED <<reader, db_call, updater, clock, fmVars, taskVars, hubVars>>

ListCleanup ==
    /\ \E id \in DOMAIN file_records : cleanup_file(id)
    /\ listing' = NoListing
    /\ UNCHANGED <<reader, db_call, updater, clock, fmVars, taskVars, hubVars>>

\* Time passes; the wall clock may also be set back.
ListTick ==
    /\ \E c \in 0..MaxClock : c # clock /\ clock' = c
    /\ UNCHANGED <<file_records, file_stages, db_ret, reader, db_call, updater, listing,
                   fmVars, taskVars, hubVars>>

ListFiles ==
    /\ \E status \in StatusFilters : list_files(status)
    /\ UNCHANGED <<reader, db_call, updater, clock, fmVars, taskVars, hubVars>>

ListNext == ListCreate \/ ListUpdate \/ ListCleanup \/ ListTick \/ ListFiles

SpecList == Init /\ [][ListNext]_vars

\* The notification hub and the endpoints of its connections.
\* The two stores driven by one sequence of calls: each call is made on
\* DatabaseManager and on FileManager with the same arguments.  The id of a
\* record is the one FileManager's uuid4 gave it.
PairIds == {"f1"}

PairCreate ==
    /\ \E id \in PairIds :
          /\ id \notin DOMAIN file_records
          /\ create_file_record(id)
          /\ fm_create_file_record(id)
    /\ fm_ret' = "created"
    /\ UNCHANGED <<reader, db_call, updater, listVars, worker, last_write, taskVars, hubVars>>

PairUpdate ==
    /\ \E id \in PairIds, a \in UpdateArgs :
          /\ ErrorLogRoom(id, a, MaxLog)
          /\ update_stage_status(id, a)
          /\ metadata' = FmUpdated(metadata, id, a).blobs
          /\ fm_ret' = IF FmUpdated(metadata, id, a).raised THEN "ValueError" ELSE "ok"
    /\ UNCHANGED <<reader, db_call, updater, listVars, worker, last_write, taskVars, hubVars>>

PairCleanup ==
    /\ \E id \in PairIds : cleanup_file(id) /\ fm_cleanup_file(id)
    /\ UNCHANGED <<reader, db_call, updater, listVars, worker, last_write, taskVars, hubVars>>

PairGet ==
    /\ \E id \in PairIds :
          /\ GetRecord(id)
          /\ fm_ret' = IF fm_get_file_record(metadata, id) = NullRecord
                       THEN "None" ELSE "record"
    /\ UNCHANGED <<metadata, reader, db_call, updater, listVars, worker, last_write,
                   taskVars, hubVars>>

PairNext == PairCreate \/ PairUpdate \/ PairCleanup \/ PairGet

SpecPair == Init /\ [][PairNext]_vars

\* The notification hub on its own.
HubConnect ==
    /\ \E ws \in Conns : connect(ws)
    /\ UNCHANGED <<dbVars, fmVars, taskVars, pubVars>>

HubMessage ==
    /\ \E ws \in Conns, msg \in Messages, sent \in BOOLEAN : HandleMessage(ws, msg, sent)
    /\ UNCHANGED <<dbVars, fmVars, taskVars, pubVars>>

HubClientClose ==
    /\ \E ws \in Conns : ClientClose(ws)
    /\ UNCHANGED <<dbVars, fmVars, taskVars, pubVars>>

HubNext == HubConnect \/ HubMessage \/ HubClientClose

SpecHub == Init /\ [][HubNext]_vars

\* The commands and the publish calls of the runs with a publish in progress.
FanMessages ==
    {[type |-> ty, key |-> "t1"] : ty \in {"subscribe_task", "unsubscribe_task"}}
    \cup {[type |-> "subscribe_file", key |-> "f1"], [type |-> "ping", key |-> None]}

FanCalls ==
    {[kind |-> "task", key |-> "t1"], [kind |-> "file", key |-> "f1"],
     [kind |-> "broadcast", key |-> None]}

\* The hub with a publish running beside the endpoints.
FanConnect ==
    /\ \E ws \in Conns : connect(ws)
    /\ WhilePublishing
    /\ UNCHANGED <<dbVars, fmVars, taskVars, unsubscribed>>

FanMessage ==
    /\ \E ws \in Conns, msg \in FanMessages, sent \in BOOLEAN :
          HandleMessage(ws, msg, sent) /\ NoteMessage(ws, msg)
    /\ WhilePublishing
    /\ UNCHANGED <<dbVars, fmVars, taskVars>>

FanClientClose ==
    /\ \E ws \in Conns : ClientClose(ws)
    /\ WhilePublishing
    /\ UNCHANGED <<dbVars, fmVars, taskVars, unsubscribed>>

FanBegin ==
    /\ \E call \in FanCalls : PublishBegin(call)
    /\ UNCHANGED <<dbVars, fmVars, taskVars>>

FanSent ==
    /\ \E ok \in BOOLEAN : PublishSent(ok)
    /\ UNCHANGED <<dbVars, fmVars, taskVars>>

FanReturn == PublishReturn /\ UNCHANGED <<dbVars, fmVars, taskVars>>

FanoutNext ==
    FanConnect \/ FanMessage \/ FanClientClose \/ FanBegin \/ FanSent \/ FanReturn

SpecFanout == Init /\ [][FanoutNext]_vars

\* The hub when a task and a file have the same id: commands and publish
\* calls on the one key, in both maps.
SharedKey == "x1"

NsMessages ==
    {[type |-> ty, key |-> SharedKey] :
        ty \in {"subscribe_task", "unsubscribe_task", "subscribe_file", "unsubscribe_file"}}

NsCalls == {[kind |-> "task", key |-> SharedKey], [kind |-> "file", key |-> SharedKey]}

NsConnect ==
    /\ \E ws \in Conns : connect(ws)
    /\ WhilePublishing
    /\ UNCHANGED <<dbVars, fmVars, taskVars, unsubscribed>>

NsMessage ==
    /\ \E ws \in Conns, msg \in NsMessages, sent \in BOOLEAN :
          HandleMessage(ws, msg, sent)
    /\ WhilePublishing
    /\ UNCHANGED <<dbVars, fmVars, taskVars, unsubscribed>>

NsClientClose ==
    /\ \E ws \in Conns : ClientClose(ws)
    /\ WhilePublishing
    /\ UNCHANGED <<dbVars, fmVars, taskVars, unsubscribed>>

NsBegin ==
    /\ \E call \in NsCalls : PublishBegin(call)
    /\ UNCHANGED <<dbVars, fmVars, taskVars>>

NsSent ==
    /\ \E ok \in BOOLEAN : PublishSent(ok)
    /\ UNCHANGED <<dbVars, fmVars, taskVars>>

NsReturn == PublishReturn /\ UNCHANGED <<dbVars, fmVars, taskVars>>

NamesNext == NsConnect \/ NsMessage \/ NsClientClose \/ NsBegin \/ NsSent \/ NsReturn

SpecNames == Init /\ [][NamesNext]_vars

(***************************************************************************)
(* Claims about the record store                                           *)
(***************************************************************************)
\* The status of stage `name` a read of record `id` reports.
StageStatus(id, name) == StagesOf(file_stages, id)[name].status

\* The stage rows stored under `id` are the three of its own creation.
OwnRowsOnly(id) ==
    Cardinality({i \in DOMAIN file_stages : file_stages[i].file_id = id}) = Len(StageNames)

\* The overall status the data model assigns to a set of stage statuses.
DerivedStatus(statuses) ==
    CASE statuses = {"completed"} -> "completed"
      [] "error" \in statuses -> "error"
      [] statuses \cap {"processing", "completed"} # {} -> "processing"
      [] OTHER -> "uploaded"

C2_UpdateUnknownIdNotFound ==
    [][\A id \in Ids, a \in UpdateArgs :
          (id \notin DOMAIN file_records /\ update_stage_status(id, a))
              => (db_ret' = "NotFound" /\ UNCHANGED <<file_records, file_stages>>)]_vars

\* C3: deleting an existing record leaves no stage row of its id, and a read
\* of the id then reports no record.
C3_DeleteRemovesStageRows ==
    [][\A id \in Ids :
          (id \in DOMAIN file_records /\ cleanup_file(id))
              => /\ \A i \in DOMAIN file_stages' : file_stages'[i].file_id # id
                 /\ get_file_record(file_records', file_stages', id) = NullRecord]_vars

\* C6: a read returns a committed state of the record: one the store held at
\* some moment of the call.
C6_ReadIsCommittedSnapshot ==
    reader.pc = "done" => reader.result \in reader.seen

\* C7: a read returns the record with its three stages or no record, and no
\* stage row is stored for an id that has no record.
C7_DeleteAtomicForReaders ==
    /\ reader.pc = "done" =>
          \/ reader.result = NullRecord
          \/ DOMAIN reader.result.stages = StageSet
    /\ \A i \in DOMAIN file_stages : file_stages[i].file_id \in DOMAIN file_records

(***************************************************************************)
(* Claims about the tasks and the metadata files                           *)
(***************************************************************************)
\* The edges a stage status may take.
LegalEdges ==
    {<<"pending", "processing">>, <<"processing", "completed">>,
     <<"processing", "error">>}

\* C4: every update a task issues moves its stage along pending->processing,
\* processing->completed or processing->error; no update rewrites the status
\* a stage already has, takes pending to error or leaves completed/error.
C4_OnlyLegalEdges ==
    \A id \in Ids : \A i \in DOMAIN stage_writes[id] :
        <<stage_writes[id][i].from, stage_writes[id][i].to>> \in LegalEdges

\* C5: once every update_stage_status call has returned, each stage of the
\* record holds the status of the latest update made to it, and the overall
\* status is the one derived from the stages: no update is lost.
C5_NoLostUpdate ==
    (\A w \in Workers : worker[w].pc = "idle") =>
        \A id \in DOMAIN metadata :
            /\ \A s \in StageSet :
                  last_write[id][s] # None =>
                      metadata[id].stages[s].status = last_write[id][s]
            /\ metadata[id].status \in
                  {"uploaded", FmOverallStatus(metadata[id].stages)}

\* C8: a chain whose converter or indexer failed ends failed, with the record
\* in status error and the error on the stage that failed: convert (and not
\* vectorize) for a conversion failure, vectorize for an indexing failure.
C8_ChainFailurePropagates ==
    \A id \in DOMAIN metadata :
        LET c == chain[id]
            st == metadata[id].stages
        IN  (c.pc \in {"success", "failed"}
                /\ (c.conv = "fail" \/ c.index \in {"error_dict", "raise"})) =>
                /\ c.pc = "failed"
                /\ c.ret = "raised"
                /\ metadata[id].status = "error"
                /\ c.conv = "fail" =>
                      st["convert"].status = "error" /\ st["vectorize"].status # "error"
                /\ c.index \in {"error_dict", "raise"} => st["vectorize"].status = "error"

\* The writes of a log that changed the status of their stage.
StatusChanges(log) == SelectSeq(log, LAMBDA w : w.from # w.to)

IsPrefix(s, t) == Len(s) <= Len(t) /\ \A i \in DOMAIN s : s[i] = t[i]

ChainOrder ==
    << [stage |-> "convert", from |-> "pending", to |-> "processing"],
       [stage |-> "convert", from |-> "processing", to |-> "completed"],
       [stage |-> "vectorize", from |-> "pending", to |-> "processing"],
       [stage |-> "vectorize", from |-> "processing", to |-> "completed"] >>

\* C9: in a chain on a freshly created record whose converter and indexer
\* succeed, upload stays completed, the stage statuses change in the order
\* convert processing, convert completed, vectorize processing, vectorize
\* completed (vectorize is pending until convert is completed), and the
\* finished chain leaves overall status completed and returns "completed"
\* with the conversion result and the indexing result.
C9_ChainOrderAndResult ==
    \A id \in DOMAIN metadata :
        LET c == chain[id]
            st == metadata[id].stages
        IN  (c.conv # "fail" /\ c.index \in {None, "ok"}) =>
                /\ st["upload"].status = "completed"
                /\ IsPrefix(StatusChanges(stage_writes[id]), ChainOrder)
                /\ st["vectorize"].status # "pending" => st["convert"].status = "completed"
                /\ c.pc = "success" =>
                      /\ StatusChanges(stage_writes[id]) = ChainOrder
                      /\ metadata[id].status = "completed"
                      /\ \A s \in StageSet : st[s].status = "completed"
                      /\ c.ret = [status |-> "completed",
                                  convert_result |-> ConvResult,
                                  vector_result |-> VecResult]

\* C9 witness: a chain has finished with both collaborators succeeding.
C9_Witness ==
    \E id \in DOMAIN metadata :
        /\ chain[id].pc = "success"
        /\ chain[id].conv = "ok"
        /\ chain[id].index = "ok"
        /\ metadata[id].status = "completed"

(***************************************************************************)
(* Claims about the notification hub                                       *)
(***************************************************************************)
\* C10: a connection whose endpoint has ended in disconnect is in neither the
\* live set nor any task or file subscription set, so that a publish to any
\* key sends nothing to it.
C10_DisconnectPurges ==
    \A ws \in Conns :
        endpoint[ws] = "closed" =>
            /\ ws \notin active_connections
            /\ \A k \in TaskKeys : ws \notin SubscribersOf(task_subscriptions, k)
            /\ \A k \in FileKeys : ws \notin SubscribersOf(file_subscriptions, k)

\* A connection is in no subscription set and not live.
Purged(ws) ==
    /\ ws \notin active_connections
    /\ \A i \in DOMAIN task_subscriptions : ws \notin task_subscriptions[i].conns
    /\ \A i \in DOMAIN file_subscriptions : ws \notin file_subscriptions[i].conns

\* C11: a finished publish to a key has attempted a send to exactly the
\* connections that were subscribed to the key when it was called, whatever
\* sends failed.
C11_PublishReachesSubscribers ==
    (fanout.pc = "done" /\ fanout.kind \in {"task", "file"}) =>
        fanout.attempted = fanout.targets

\* C12: a publish or broadcast in which sends failed returns without raising,
\* and every connection whose send failed is then out of the live set and of
\* every subscription set.
C12_FailedSendersDisconnected ==
    (fanout.pc = "done" /\ fanout.disconnected # {}) =>
        /\ fanout.ret = "returned"
        /\ \A ws \in fanout.disconnected : Purged(ws)

\* C13: a connection subscribed to the key when a publish is called, that
\* stays subscribed and has no failed send, has received the payload (once)
\* when the publish is over.
C13_DeliveredOncePerPublish ==
    (fanout.pc = "done" /\ fanout.kind \in {"task", "file"}) =>
        \A ws \in fanout.targets :
            (ws \notin fanout.left /\ ws \notin fanout.disconnected) =>
                ws \in fanout.delivered

\* C14: no publish to a key starts a send to a connection whose subscription
\* to that key was ended by an unsubscribe command and not taken up again.
C14_NoDeliveryAfterUnsubscribe ==
    [][\A ws \in Conns :
          (ws \in fanout'.attempted /\ ws \notin fanout.attempted) =>
              <<ws, fanout'.kind, fanout'.key>> \notin unsubscribed]_vars

\* C14 witness: a publish to a key has delivered to a subscriber while a
\* connection that had unsubscribed from the key before got nothing.
C14_Witness ==
    /\ fanout.pc = "done"
    /\ fanout.kind = "task"
    /\ fanout.delivered # {}
    /\ \E ws \in fanout.barred :
          /\ <<ws, "task", fanout.key>> \in unsubscribed
          /\ ws \notin fanout.attempted

(***************************************************************************)
(* Claims about record creation                                            *)
(***************************************************************************)
\* The record a read returns for an id that has just been created.
FreshRecord ==
    [found |-> TRUE, status |-> "uploaded",
     stages |-> [n \in StageSet |->
                   [status |-> IF n = "upload" THEN "completed" ELSE "pending",
                    timestamp |-> IF n = "upload" THEN Now ELSE None,
                    result |-> None, error |-> None]],
     markdown_path |-> None, processing_errors |-> << >>]

\* C20: a create_file_record that adds an id no record had reads back as a
\* record with status uploaded, upload completed with a time, convert and
\* vectorize pending, no errors and no output path, and every other record
\* reads as before.
C20_CreateRecordFresh ==
    [][\A id \in Ids :
          (id \notin DOMAIN file_records /\ id \in DOMAIN file_records') =>
              /\ get_file_record(file_records', file_stages', id) = FreshRecord
              /\ \A o \in DOMAIN file_records :
                    get_file_record(file_records', file_stages', o) =
                        get_file_record(file_records, file_stages, o)]_vars

\* C20 witness: a record has been created beside one that an update had
\* moved on, or under an id whose earlier stage rows are still stored.
C20_Witness ==
    /\ db_ret = "ok"
    /\ \E id \in DOMAIN file_records :
          /\ get_file_record(file_records, file_stages, id) = FreshRecord
          /\ \/ \E o \in DOMAIN file_records \ {id} : file_records[o].status # "uploaded"
             \/ ~OwnRowsOnly(id)

(***************************************************************************)
(* Claims about the batch task and the stage handlers                      *)
(***************************************************************************)
\* The positions of the entries of a batch result that are marked error.
ErrorEntries(results) == {i \in DOMAIN results : results[i].status = "error"}

\* C15: the result of a batch over N paths has N entries, entry i for path
\* i, success_count + error_count = N and total_files = N; the entries marked
\* error are those of the items that failed, as many as error_count says.
C15_BatchResultShape ==
    batch.pc = "done" =>
        LET r == batch.ret
            n == Len(batch.file_ids)
        IN  /\ Len(r.results) = n
            /\ \A i \in 1..n : r.results[i].file_id = batch.file_ids[i]
            /\ r.success_count + r.error_count = n
            /\ r.total_files = n
            /\ r.error_count = Cardinality(ErrorEntries(r.results))
            /\ \A i \in 1..n :
                  /\ batch.outcomes[i].conv = "fail" => i \in ErrorEntries(r.results)
                  /\ i \in ErrorEntries(r.results) =>
                        \/ batch.outcomes[i].conv = "fail"
                        \/ batch.outcomes[i].error_write = "ValueError"

\* C15 witness: a batch of two in which exactly the first conversion failed
\* has returned two entries, the first one marked error.
C15_Witness ==
    /\ batch.pc = "done"
    /\ Len(batch.file_ids) = Cardinality(Ids)
    /\ batch.outcomes[1].conv = "fail"
    /\ ErrorEntries(batch.ret.results) = {1}
    /\ batch.ret.success_count = 1

\* C16: the batch task never ends failed; its result has status completed
\* and an entry for every item, also those after a failed one; the record of
\* an item whose conversion failed has its convert stage in error; and the
\* step in which an item fails changes no record but that item's.
C16_BatchIsolatesFailure ==
    /\ [](/\ batch.pc # "failed"
          /\ batch.pc = "done" =>
                /\ batch.ret.status = "completed"
                /\ Len(batch.ret.results) = Len(batch.file_ids)
                /\ \A i \in DOMAIN batch.file_ids :
                      (batch.outcomes[i].conv = "fail"
                          /\ batch.file_ids[i] \in DOMAIN metadata) =>
                          metadata[batch.file_ids[i]].stages["convert"].status = "error")
    /\ [][batch'.error_count > batch.error_count =>
              \A o \in DOMAIN metadata \ {batch.file_ids[batch.i]} :
                  o \in DOMAIN metadata' /\ metadata'[o] = metadata[o]]_vars

\* C16 witness: the first item of a batch failed, the second was converted
\* after it, and the batch has returned; the first record is in error and the
\* second completed.
C16_Witness ==
    /\ batch.pc = "done"
    /\ Len(batch.file_ids) = Cardinality(Ids)
    /\ batch.outcomes[1].conv = "fail"
    /\ batch.ret.results[Len(batch.file_ids)].status = "success"
    /\ \A i \in DOMAIN batch.file_ids : batch.file_ids[i] \in DOMAIN metadata
    /\ metadata[batch.file_ids[1]].stages["convert"].status = "error"
    /\ metadata[batch.file_ids[Len(batch.file_ids)]].stages["convert"].status = "completed"

\* C17: once the converter has failed for a record, the record's convert
\* stage is in error with the conversion's error message, the record's error
\* log holds an entry for it, and the task that ran the conversion is on its
\* way to failed or has failed by raising; once the converter has succeeded,
\* the convert stage is completed, its result is the conversion's result and
\* the record's output path is the result's output file.
C17_ConversionOutcomeRecorded ==
    \A id \in DOMAIN metadata :
        LET c == chain[id]
            md == metadata[id]
        IN  /\ c.conv = "fail" =>
                  /\ md.stages["convert"].status = "error"
                  /\ md.stages["convert"].error = ConvertErrorMsg
                  /\ \E i \in DOMAIN md.processing_errors :
                        md.processing_errors[i] =
                            [stage |-> "convert", error |-> ConvertErrorMsg]
                  /\ c.pc \in {"except", "failed"}
                  /\ c.pc = "failed" => c.ret = "raised"
            /\ c.conv = "ok" =>
                  /\ md.stages["convert"].status = "completed"
                  /\ md.stages["convert"].result = ConvResult
                  /\ OutputFile(md.stages["convert"].result) # None
                  /\ md.markdown_path = OutputFile(ConvResult)

\* C17 witness: one task has failed on its conversion and another record's
\* conversion has succeeded.
C17_Witness ==
    /\ \E id \in DOMAIN metadata :
          /\ chain[id].conv = "fail"
          /\ chain[id].pc = "failed"
          /\ metadata[id].stages["convert"].status = "error"
    /\ \E id \in DOMAIN metadata :
          /\ chain[id].conv = "ok"
          /\ metadata[id].stages["convert"].status = "completed"

\* C18: a vectorize_markdown task whose indexer failed has ended failed and
\* has left the record's vectorize stage in error, never completed.
C18_IndexerFailureMarksError ==
    \A id \in Ids :
        vtask[id].index \in {"error_dict", "raise"} =>
            /\ vtask[id].pc = "failed"
            /\ id \in DOMAIN metadata =>
                  /\ metadata[id].stages["vectorize"].status = "error"
                  /\ metadata[id].stages["vectorize"].status # "completed"

\* C19: when the write of the error status fails because the record is gone,
\* the handler still fails and with the error of its stage: the vectorize
\* task fails with the indexer's error, and the conversion of a batch item
\* raises the converter's error into the item's entry.
C19_ErrorWriteBestEffort ==
    /\ \A id \in Ids :
          (vtask[id].index = "raise" /\ vtask[id].error_write = "ValueError") =>
              /\ vtask[id].pc = "failed"
              /\ vtask[id].error = IndexErrorMsg
    /\ \A i \in DOMAIN batch.outcomes :
          (batch.outcomes[i].conv = "fail"
              /\ batch.outcomes[i].error_write = "ValueError") =>
              /\ batch.results[i].status = "error"
              /\ batch.results[i].error = ConvertErrorMsg

\* C19 witness: the record of a vectorize task was deleted while the indexer
\* ran, the indexer raised, the error write found no record, and the task
\* has failed with the indexer's error.
C19_Witness ==
    \E id \in Ids :
        /\ id \notin DOMAIN metadata
        /\ vtask[id].index = "raise"
        /\ vtask[id].error_write = "ValueError"
        /\ vtask[id].pc = "failed"
        /\ vtask[id].error = IndexErrorMsg

(***************************************************************************)
(* Claims about the operations of the record store                         *)
(***************************************************************************)
\* C21: an update of an existing record that completes convert with a result
\* naming an output file, while the record's vectorize stage reads pending,
\* leaves the record processing with that file as its markdown path; and an
\* update whose status is not completed leaves the markdown path as it was.
C21_ConvertCompletedSetsPath ==
    [][\A id \in Ids, a \in UpdateArgs :
          (id \in DOMAIN file_records /\ update_stage_status(id, a) /\ db_ret' = "ok") =>
              LET before == get_file_record(file_records, file_stages, id)
                  after == get_file_record(file_records', file_stages', id)
              IN  /\ (a.stage = "convert" /\ a.status = "completed"
                         /\ OutputFile(a.result) # None
                         /\ before.stages["vectorize"].status = "pending") =>
                         /\ after.status = "processing"
                         /\ after.markdown_path = OutputFile(a.result)
                  /\ a.status # "completed" =>
                         after.markdown_path = before.markdown_path]_vars

\* C22: an update of an existing record that names a stage outside upload,
\* convert and vectorize fails with InvalidStage and changes neither the
\* record nor its stage rows.
C22_InvalidStageRejected ==
    [][\A id \in OneIds, a \in InvalidStageArgs :
          (id \in DOMAIN file_records /\ update_stage_status(id, a)) =>
              /\ db_ret' = "InvalidStage"
              /\ UNCHANGED <<file_records, file_stages>>]_vars

\* C24: an update of an existing record with an error appends one entry
\* {stage, error, timestamp} to the end of the record's error log, the earlier
\* entries staying as they were; an update without an error leaves the log
\* as it was.
C24_ErrorLogAppendOnly ==
    [][\A id \in OneIds, a \in OneArgs :
          (id \in DOMAIN file_records /\ update_stage_status(id, a)) =>
              LET before == get_file_record(file_records, file_stages, id).processing_errors
                  after == get_file_record(file_records', file_stages', id).processing_errors
              IN  IF Truthy(a.error)
                  THEN after = Append(before, [stage |-> a.stage, error |-> a.error,
                                               timestamp |-> Now])
                  ELSE after = before]_vars

\* C24 witness: the record's log holds two entries of different stages, the
\* later update's entry after the earlier one's.
C24_Witness ==
    \E id \in DOMAIN file_records :
        LET log == file_records[id].processing_errors
        IN  /\ Len(log) = MaxLog
            /\ log[1].stage = "vectorize"
            /\ log[Len(log)].stage = "convert"

\* C23: a cleanup_file for an id that has no record returns the not-found
\* outcome and changes neither table, and a get_file_record for such an id
\* returns None, also when stage rows are still stored under the id.
C23_AbsentIdNotFound ==
    [][\A id \in OneIds :
          (id \notin DOMAIN file_records /\ db_call'.id = id) =>
              /\ db_call'.op = "cleanup_file" =>
                    db_ret' = "NotFound" /\ UNCHANGED <<file_records, file_stages>>
              /\ db_call'.op = "get_file_record" =>
                    db_ret' = "None" /\ UNCHANGED <<file_records, file_stages>>]_vars

\* C23 witness: a cleanup_file for a deleted id, whose stage rows are still
\* stored, has returned not found.
C23_Witness ==
    /\ db_call.op = "cleanup_file"
    /\ db_ret = "NotFound"
    /\ db_call.id \notin DOMAIN file_records
    /\ \E i \in DOMAIN file_stages : file_stages[i].file_id = db_call.id

\* C25: the list a list_files call returns holds exactly the records whose
\* status is the filter, or all records without a filter, each once, a record
\* created later never after one created earlier, and the call changes
\* neither table.
C25_ListFilteredAndOrdered ==
    [][listing'.called =>
          LET files == listing'.files
              wanted == IF listing'.filter = None THEN DOMAIN file_records
                        ELSE {id \in DOMAIN file_records :
                                 file_records[id].status = listing'.filter}
          IN  /\ {files[i].file_id : i \in DOMAIN files} = wanted
              /\ Len(files) = Cardinality(wanted)
              /\ \A i, j \in DOMAIN files :
                    i < j => files[i].created_at >= files[j].created_at
              /\ \A i \in DOMAIN files :
                    /\ files[i].status = file_records[files[i].file_id].status
                    /\ files[i].created_at = file_records[files[i].file_id].created_at
              /\ UNCHANGED <<file_records, file_stages>>]_vars

\* C25 witness: a list without filter holds two records created at different
\* times, the later one first.
C25_Witness ==
    /\ listing.called
    /\ listing.filter = None
    /\ Len(listing.files) = Cardinality(Ids)
    /\ listing.files[1].created_at > listing.files[Len(listing.files)].created_at

(***************************************************************************)
(* Claims about the execution of tasks                                     *)
(***************************************************************************)
\* C26: a task that has ended, by returning, by raising or by being killed
\* at its time limit, is not run again; and a running batch never goes back
\* to an item: each conversion moves it on to the next item.
C26_NoAutomaticRetry ==
    [][/\ batch.pc \in {"done", "killed"} => batch' = batch
       /\ \A id \in Ids :
             vtask[id].pc \in {"success", "failed", "killed"} => vtask'[id] = vtask[id]
       /\ batch'.i >= batch.i
       /\ (batch.step = "convert" /\ batch'.pc = "running" /\ batch' # batch) =>
             batch'.i = batch.i + 1]_vars

\* C26 witness: the batch has returned with a failed item in it, one of the
\* vectorize tasks has failed and the other was killed.
C26_Witness ==
    /\ batch.pc = "done"
    /\ batch.ret.error_count + batch.ret.success_count > 0
    /\ \E id \in Ids : vtask[id].pc = "failed"
    /\ \E id \in Ids : vtask[id].pc = "killed"

(***************************************************************************)
(* Claims about broadcast and the inbound protocol of the hub              *)
(***************************************************************************)
\* C27: a finished broadcast has attempted a send to every connection that
\* was live when it was called, subscribed to a key or not, whatever sends
\* failed.
C27_BroadcastReachesLive ==
    (fanout.pc = "done" /\ fanout.kind = "broadcast") =>
        fanout.attempted = fanout.targets

\* Applying f a second time to a subscription dict changes nothing.
Idempotent(f(_, _, _), subs, key, ws) == f(f(subs, key, ws), key, ws) = f(subs, key, ws)

\* C28: in every state of the hub, for every connection and key, a second
\* subscribe gives the dict the first one gave, and so does a second
\* unsubscribe, whether the connection was subscribed to the key, the key had
\* other subscribers or none.
C28_SubscribeUnsubscribeIdempotent ==
    /\ \A ws \in Conns, k \in TaskKeys :
          /\ Idempotent(subscribe, task_subscriptions, k, ws)
          /\ Idempotent(unsubscribe, task_subscriptions, k, ws)
    /\ \A ws \in Conns, k \in FileKeys :
          /\ Idempotent(subscribe, file_subscriptions, k, ws)
          /\ Idempotent(unsubscribe, file_subscriptions, k, ws)

\* C28 witness: a task key has two subscribers, so that an unsubscribe of
\* one leaves the key, and another task key has none.
C28_Witness ==
    \E k \in TaskKeys :
        /\ SubscribersOf(task_subscriptions, k) = Conns
        /\ \E o \in TaskKeys : o \notin KeysOf(task_subscriptions)

\* C29: a message handled on an open connection whose reply can be sent is
\* answered with one reply and leaves the connection open; a message of an
\* unrecognized type changes no subscription.
C29_OneReplyPerMessage ==
    [][\A ws \in Conns, msg \in Messages :
          (endpoint[ws] = "open" /\ HandleMessage(ws, msg, TRUE)) =>
              /\ hub_ret' = "replied"
              /\ endpoint'[ws] = "open"
              /\ msg.type \notin (KeyedTypes \cup {"ping"}) =>
                    UNCHANGED <<task_subscriptions, file_subscriptions>>]_vars

\* C30: between two items of a running batch, after item i of N, the task's
\* status reads as in progress with i of N items done.
C30_ProgressAfterEachItem ==
    (batch.pc = "running" /\ batch.step = "begin" /\ batch.i > 1) =>
        LET s == get_task_status(batch)
        IN  /\ s.state = "progress"
            /\ s.progress * Len(batch.file_ids) = (batch.i - 1) * 100

(***************************************************************************)
(* Claims about the order of the phases                                    *)
(***************************************************************************)
\* C31: indexing for a file starts only after that file's conversion has
\* succeeded: the indexer has not been invoked and vectorize is not
\* processing while convert is not completed, and after a failed conversion
\* the vectorize stage is still as create_file_record left it (pending, no
\* error, never written).
C31_IndexingOnlyAfterConversion ==
    \A id \in DOMAIN metadata :
        LET c == chain[id]
            st == metadata[id].stages
        IN  /\ (c.index # None \/ st["vectorize"].status = "processing") =>
                   st["convert"].status = "completed"
            /\ c.conv = "fail" =>
                   /\ st["vectorize"] = InitialMetadata.stages["vectorize"]
                   /\ \A k \in 1..Len(stage_writes[id]) :
                          stage_writes[id][k].stage # "vectorize"

(***************************************************************************)
(* Claims about disconnect and the subscription maps                       *)
(***************************************************************************)
\* C32: disconnect is total and idempotent: in every reachable hub state
\* disconnect(conn) completes without raising, for a live connection or not
\* and whatever it is subscribed to, and a second disconnect(conn) leaves the
\* hub as the first one left it.
C32_DisconnectTotalIdempotent ==
    \A ws \in Conns :
        LET d == disconnect(Hub, ws)
        IN  /\ ~d.raised
            /\ ~disconnect(d, ws).raised
            /\ disconnect(d, ws) = d

\* C33: a publish or broadcast during whose sends other connections'
\* handlers subscribed, unsubscribed, connected or disconnected ends without
\* error and has delivered to every connection that stayed in its set from
\* its call to its end (here with every send succeeding, so that no clean-up
\* of failed connections is involved).
C33_FanoutSurvivesInterleaving ==
    (fanout.pc = "done" /\ fanout.disconnected = {}) =>
        /\ fanout.ret = "returned"
        /\ \A ws \in fanout.targets \ fanout.left : ws \in fanout.delivered

\* C34: in every reachable hub state each connection held in a task or file
\* subscription set is in the live connection set: no subscription outlives
\* its connection.
C34_SubscribersAreLive ==
    /\ \A i \in DOMAIN task_subscriptions :
          task_subscriptions[i].conns \subseteq active_connections
    /\ \A i \in DOMAIN file_subscriptions :
          file_subscriptions[i].conns \subseteq active_connections

(***************************************************************************)
(* Claims about the stage rows and the two stores                          *)
(***************************************************************************)
\* C35: in every reachable store state each existing record has exactly one
\* stage row for each of upload, convert and vectorize, and no stage row is
\* stored under an id that has no record.
C35_StageRowsMatchRecords ==
    /\ \A id \in DOMAIN file_records, n \in StageSet :
          Cardinality({i \in DOMAIN file_stages :
                          file_stages[i].file_id = id
                          /\ file_stages[i].stage_name = n}) = 1
    /\ \A i \in DOMAIN file_stages : file_stages[i].file_id \in DOMAIN file_records

\* What a caller reads off a record of either store: its stage statuses, its
\* overall status, its markdown path and the stage and text of each entry of
\* its error log.
Observed(rec) ==
    IF rec = NullRecord THEN NullRecord
    ELSE [found |-> TRUE,
          status |-> rec.status,
          stages |-> [n \in DOMAIN rec.stages |-> rec.stages[n].status],
          markdown_path |-> rec.markdown_path,
          errors |-> [k \in DOMAIN rec.processing_errors |->
                        [stage |-> rec.processing_errors[k].stage,
                         error |-> rec.processing_errors[k].error]]]

\* C36: driven by the same sequence of create, update-stage, get and delete
\* calls, FileManager and DatabaseManager report the same stage statuses,
\* overall status, path and error log for every record after every step.
C36_StoresEquivalent ==
    \A id \in PairIds :
        Observed(fm_get_file_record(metadata, id))
            = Observed(get_file_record(file_records, file_stages, id))

(***************************************************************************)
(* Claims about the end of a task                                          *)
(***************************************************************************)
\* The stage `s` of record `id` reads `status`.
StageIs(id, s, status) ==
    id \in DOMAIN metadata /\ metadata[id].stages[s].status = status

\* C37: on workers that are not killed and with store writes that succeed,
\* a stage a task has set to processing is eventually completed or error,
\* and once a task has ended (the chain, the batch or a vectorize task) no
\* stage of a record it worked on is processing.
C37_ProcessingIsTransient ==
    /\ [](\A id \in Ids :
            /\ chain[id].pc \in {"success", "failed"} =>
                  \A s \in StageSet : ~StageIs(id, s, "processing")
            /\ vtask[id].pc \in {"success", "failed"} =>
                  ~StageIs(id, "vectorize", "processing")
            /\ (batch.pc = "done" /\ \E k \in DOMAIN batch.file_ids : batch.file_ids[k] = id)
                  => ~StageIs(id, "convert", "processing"))
    /\ \A id \in Ids, s \in {"convert", "vectorize"} :
          StageIs(id, s, "processing")
              ~> (StageIs(id, s, "completed") \/ StageIs(id, s, "error"))

\* C37 witness: a chain whose indexer raised has ended with vectorize in
\* error and convert completed, and a vectorize task whose indexer raised has
\* ended with vectorize in error.
C37_Witness ==
    /\ \E id \in Ids :
          /\ chain[id].pc = "failed"
          /\ chain[id].index = "raise"
          /\ StageIs(id, "convert", "completed")
          /\ StageIs(id, "vectorize", "error")
    /\ \E id \in Ids :
          /\ vtask[id].pc = "failed"
          /\ vtask[id].index = "raise"
          /\ StageIs(id, "vectorize", "error")

(***************************************************************************)
(* Claims about what update_stage_status returns                           *)
(***************************************************************************)
\* C38: the record update_stage_status returns for a record that existed
\* shows the update just applied, whatever other writers' updates or delete
\* of the record ran beside the call: the record exists and its updated
\* stage has the status, result and error this call wrote.
C38_ReturnReflectsUpdate ==
    (updater.pc = "returned" /\ updater.existed) =>
        /\ updater.ret # NullRecord
        /\ updater.arg.stage \in DOMAIN updater.ret.stages
        /\ updater.ret.stages[updater.arg.stage].status = updater.arg.status
        /\ updater.ret.stages[updater.arg.stage].result = ResultJson(updater.arg.result)
        /\ updater.ret.stages[updater.arg.stage].error = updater.arg.error

(***************************************************************************)
(* Claims about the two subscription maps                                  *)
(***************************************************************************)
\* C39: task-id and file-id subscriptions are separate namespaces: a publish
\* to task key X starts a send only to a connection in the task subscription
\* set of X, a publish to file key X only to one in the file subscription set
\* of X, and a subscribe or unsubscribe command for one map leaves the other
\* map as it was.
C39_SeparateNamespaces ==
    /\ [](\A ws \in Conns, msg \in NsMessages :
            /\ msg.type \in {"subscribe_task", "unsubscribe_task"} =>
                  Dispatch(Hub, msg, ws).files = file_subscriptions
            /\ msg.type \in {"subscribe_file", "unsubscribe_file"} =>
                  Dispatch(Hub, msg, ws).tasks = task_subscriptions)
    /\ [][\A ws \in Conns :
            (ws \in fanout'.attempted /\ ws \notin fanout.attempted) =>
                /\ fanout'.kind = "task" =>
                      ws \in SubscribersOf(task_subscriptions, fanout'.key)
                /\ fanout'.kind = "file" =>
                      ws \in SubscribersOf(file_subscriptions, fanout'.key)]_vars

\* C39 witness: a publish to the task key has delivered to its task
\* subscriber and has not tried the connection that is subscribed to the
\* file of the same id only.
C39_Witness ==
    /\ fanout.pc = "done"
    /\ fanout.kind = "task"
    /\ fanout.key = SharedKey
    /\ fanout.delivered # {}
    /\ \E ws \in SubscribersOf(file_subscriptions, SharedKey) :
          /\ ws \notin SubscribersOf(task_subscriptions, SharedKey)
          /\ ws \notin fanout.targets
          /\ ws \notin fanout.attempted

\* C40: in every reachable hub state no key of the task or file subscription
\* map has an empty subscriber set: the unsubscribe or disconnect that takes
\* the last connection out of a set deletes its key.
C40_NoEmptySubscriberSet ==
    /\ \A i \in DOMAIN task_subscriptions : task_subscriptions[i].conns # {}
    /\ \A i \in DOMAIN file_subscriptions : file_subscriptions[i].conns # {}

\* C40 witness: a live connection has unsubscribed from a task key and got
\* its reply, and the key is gone from the map while a file key still has
\* its subscribers.
C40_Witness ==
    /\ hub_ret = "replied"
    /\ file_subscriptions # << >>
    /\ \E ws \in active_connections :
          /\ <<ws, "task", "t1">> \in unsubscribed
          /\ "t1" \notin KeysOf(task_subscriptions)

====
